---- MODULE Spec2Model ----
(***************************************************************************)
(* The annotated-text model of enriched-text-input: the run list (tokens), *)
(* the diff of successive flat texts, the split / merge / insert / update   *)
(* routines and the handlers of the RichTextInput component that drive      *)
(* them (src/src/RichTextInput.tsx, lines 1-939).                           *)
(*                                                                         *)
(* Strings are sequences of one-character strings.  Indices passed between  *)
(* the routines are JavaScript indices (0-based, -1 for "not found"), so    *)
(* that slice / indexOf / splice behave as they do in the source.           *)
(* An annotation mapping is a function from the keys it holds to "T"        *)
(* (true), "F" (false) or "U" (a key whose value is undefined).             *)
(***************************************************************************)
EXTENDS Integers, Sequences, FiniteSets, TLC

VARIABLES tokens, prevText, toSplit, selection, text, last, input, output

vars == <<tokens, prevText, toSplit, selection, text, last, input, output>>

(***************************************************************************)
(* Bounds of the model.                                                    *)
(***************************************************************************)
\* Longest text the runs hold.
MaxLen == 2

\* Longest text the input adapter reports, delimiters included.
MaxTyped == 3

\* Most segments of a generated markup string.
MaxSegs == 2

\* Characters the user types: a letter and the bold delimiter.
TypeChars == {"a", "*"}

\* Styles the toolbar toggles.
ToggleStyles == {"italic"}

(***************************************************************************)
(* JavaScript string and array primitives.                                 *)
(***************************************************************************)
Max(a, b) == IF a > b THEN a ELSE b

Min(a, b) == IF a < b THEN a ELSE b

\* A relative index of slice(): negative counts from the end, then clamped.
RelIndex(i, n) == IF i < 0 THEN Max(n + i, 0) ELSE Min(i, n)

\* String.prototype.slice(a, b) and Array.prototype.slice(a, b).
slice(s, a, b) ==
  LET from == RelIndex(a, Len(s))
      to   == RelIndex(b, Len(s))
  IN IF from >= to THEN <<>> ELSE SubSeq(s, from + 1, to)

\* slice(a) with the end left out.
sliceFrom(s, a) == slice(s, a, Len(s))

\* Whether sub occurs in s at JavaScript index i.
OccursAt(s, sub, i) ==
  /\ i >= 0
  /\ i + Len(sub) <= Len(s)
  /\ \A k \in 1..Len(sub) : s[i + k] = sub[k]

\* String.prototype.indexOf(sub, from): -1 when sub does not occur.
indexOf(s, sub, from) ==
  LET f    == Max(0, Min(from, Len(s)))
      hits == {i \in f..Len(s) : OccursAt(s, sub, i)}
  IN IF hits = {} THEN -1 ELSE CHOOSE i \in hits : \A j \in hits : i <= j

\* String.prototype.replace(lit, ""): the first occurrence of lit is removed.
\* <<>> stands for the parameter left out (undefined), which no text of the
\* model's alphabet contains.
replace(s, lit) ==
  LET i == indexOf(s, lit, 0)
  IN IF lit = <<>> \/ i = -1 THEN s
     ELSE slice(s, 0, i) \o sliceFrom(s, i + Len(lit))

insertAt(str, index, substring) ==
  LET i == Max(0, Min(index, Len(str)))
  IN slice(str, 0, i) \o substring \o sliceFrom(str, i)

removeAt(str, index, strToRemove) ==
  slice(str, 0, index) \o sliceFrom(str, index + Len(strToRemove))

replaceAt(str, index, substring, length) ==
  LET i == Max(0, Min(index, Len(str)))
  IN slice(str, 0, i) \o substring \o sliceFrom(str, i + length)

(***************************************************************************)
(* Annotations.                                                            *)
(***************************************************************************)
EmptyAnn == [k \in {} |-> "F"]

\* annotations[key]: "U" when the key is absent.
Get(ann, key) == IF key \in DOMAIN ann THEN ann[key] ELSE "U"

\* { ...ann, [key]: value }
Put(ann, key, value) ==
  [k \in (DOMAIN ann) \cup {key} |-> IF k = key THEN value ELSE ann[k]]

\* An annotation value is true ("T"), false ("F"), a non-empty string ("S"),
\* null ("N") or undefined ("U"); true and the string are the truthy ones.
Truthy(v) == v \in {"T", "S"}

\* !value
Not(v) == IF Truthy(v) THEN "F" ELSE "T"

\* Faulty variant of concileAnnotations: the new value overwrites the
\* previous one, a truthy value does not negate it.
concileOverwrite(prevAnnotations, newAnnotations) ==
  [key \in (DOMAIN prevAnnotations) \cup (DOMAIN newAnnotations) |->
     IF key \in DOMAIN newAnnotations
     THEN newAnnotations[key]
     ELSE prevAnnotations[key]]

\* Faulty variant of concileAnnotations: the previous value is negated for
\* every key of the new annotations, also for a falsy new value.
concileNegateAlways(prevAnnotations, newAnnotations) ==
  [key \in (DOMAIN prevAnnotations) \cup (DOMAIN newAnnotations) |->
     IF key \in DOMAIN newAnnotations
     THEN Not(Get(prevAnnotations, key))
     ELSE prevAnnotations[key]]

concileAnnotations(prevAnnotations, newAnnotations) ==
  [key \in (DOMAIN prevAnnotations) \cup (DOMAIN newAnnotations) |->
     IF key \in DOMAIN newAnnotations
     THEN IF Truthy(newAnnotations[key])
          THEN Not(Get(prevAnnotations, key))
          ELSE newAnnotations[key]
     ELSE prevAnnotations[key]]

Tok(t, a) == [text |-> t, annotations |-> a]

RECURSIVE Join(_)
\* tokens.reduce((acc, curr) => acc + curr.text, "")
Join(toks) == IF toks = <<>> THEN <<>> ELSE Head(toks).text \o Join(Tail(toks))

\* Faulty variant of filterEmpty: runs with empty text are kept.
filterNothing(toks) == toks

\* tokens.filter(token => token.text.length > 0)
filterEmpty(toks) == SelectSeq(toks, LAMBDA t : Len(t.text) > 0)

\* Faulty variant of diffStrings: the scan from the end is left out, so
\* everything after the common prefix counts as removed and added.
diffPrefixOnly(prev, next) ==
  LET m     == Min(Len(prev), Len(next))
      start == CHOOSE k \in 0..m :
                 /\ \A i \in 1..k : prev[i] = next[i]
                 /\ (k = m \/ prev[k + 1] # next[k + 1])
  IN [start   |-> start,
      removed |-> sliceFrom(prev, start),
      added   |-> sliceFrom(next, start)]

(***************************************************************************)
(* diffStrings                                                             *)
(***************************************************************************)
diffStrings(prev, next) ==
  LET m     == Min(Len(prev), Len(next))
      start == CHOOSE k \in 0..m :
                 /\ \A i \in 1..k : prev[i] = next[i]
                 /\ (k = m \/ prev[k + 1] # next[k + 1])
      room  == m - start
      back  == CHOOSE k \in 0..room :
                 /\ \A i \in 0..(k - 1) : prev[Len(prev) - i] = next[Len(next) - i]
                 /\ (k = room \/ prev[Len(prev) - k] # next[Len(next) - k])
  IN [start   |-> start,
      removed |-> slice(prev, start, Len(prev) - back),
      added   |-> slice(next, start, Len(next) - back)]

(***************************************************************************)
(* The locate loops: walk the run list, subtracting the length of each run *)
(* passed, until a run covers the offset.  idx is the JavaScript index of   *)
(* the run (-1: no run found, the token is undefined), off the residual.    *)
(***************************************************************************)
RECURSIVE locateFrom(_, _, _, _)
locateFrom(toks, i, off, strict) ==
  IF i > Len(toks) THEN [idx |-> -1, off |-> off]
  ELSE IF (strict /\ off < Len(toks[i].text)) \/ (~strict /\ off <= Len(toks[i].text))
       THEN [idx |-> i - 1, off |-> off]
       ELSE locateFrom(toks, i + 1, off - Len(toks[i].text), strict)

\* Faulty variant of the start locate: the comparison is not strict.
locateStartLoose(toks, offset) == locateFrom(toks, 1, offset, FALSE)

\* The start locate: startIndex < token.text.length.
locateStart(toks, offset) == locateFrom(toks, 1, offset, TRUE)

\* The end locate: endIndex <= token.text.length.
locateEnd(toks, offset) == locateFrom(toks, 1, offset, FALSE)

\* The outcome of a routine that raised a TypeError.
Threw ==
  [threw |-> TRUE, undef |-> FALSE, result |-> <<>>, plain_text |-> <<>>,
   updatedTokens |-> <<>>]

\* The outcome of a routine that fell off its end and returned undefined; the
\* caller's destructuring of it raises a TypeError.
NoResult ==
  [threw |-> TRUE, undef |-> TRUE, result |-> <<>>, plain_text |-> <<>>,
   updatedTokens |-> <<>>]

\* { result: the runs without the empty ones, plain_text }.  updatedTokens
\* is the routine's working list before the filter: the run objects it holds
\* are the ones the routine may have written to.
Returned(toks) ==
  [threw |-> FALSE, undef |-> FALSE,
   result |-> filterEmpty(toks), plain_text |-> Join(toks),
   updatedTokens |-> toks]

(***************************************************************************)
(* updateTokens: applies a diff to the run texts.                          *)
(***************************************************************************)
\* The cross-token branch with text to add or to remove: the first and the
\* last selected run are cut in place, the runs between them spliced out.
crossTokenEdit(toks, s, e, startIndex, endIndex, added) ==
  LET sel == slice(toks, s, e + 1)
      cnt == Len(sel)
      fi  == RelIndex(s, Len(toks)) + 1
      li  == fi + cnt - 1
      t1  == [toks EXCEPT ![fi].text = slice(@, 0, startIndex) \o added]
      t2  == [t1 EXCEPT ![li].text = sliceFrom(@, endIndex)]
      t3  == IF cnt > 2 THEN slice(t2, 0, s + 1) \o sliceFrom(t2, s + cnt - 1)
             ELSE t2
  IN IF cnt = 0 THEN Threw ELSE Returned(t3)

\* Faulty variant of updateTokens: the edit is dropped and the runs are
\* returned as they were.
updateTokensDropped(toks, diff) == Returned(toks)

\* const tokenCopy = { ...startToken }; tokenCopy.text = ...: a new run
\* object with the annotations of the run it copies.
tokenCopy(startToken, txt) == Tok(txt, startToken.annotations)

updateTokens(toks, diff) ==
  LET n         == Len(toks)
      total     == Len(Join(toks))
      addLen    == Len(diff.added)
      remLen    == Len(diff.removed)
      st        == locateStart(toks, diff.start)
      endOffset == IF remLen > addLen THEN diff.start + remLen
                   ELSE diff.start + addLen
      en        == locateEnd(toks, endOffset)
      s         == st.idx
      e         == en.idx
      startIndex == st.off
      endIndex  == en.off
  IN
  IF diff.start >= total /\ addLen > 0
  THEN IF n = 0 THEN Threw
       ELSE Returned([toks EXCEPT ![n].text = @ \o diff.added])
  ELSE IF diff.start >= total /\ remLen > 0
  THEN IF n = 0 THEN Threw
       ELSE Returned([toks EXCEPT ![n].text = slice(@, 0, Len(@) - remLen)])
  ELSE IF s = e
  THEN \* Same token
       IF s = -1
       THEN IF addLen > 0 \/ remLen > 0 THEN Threw ELSE NoResult
       ELSE IF remLen > 0 /\ addLen > 0
       THEN Returned([toks EXCEPT ![s + 1] =
                         tokenCopy(@, replaceAt(@.text, startIndex,
                                                diff.added, remLen))])
       ELSE IF remLen > 0
       THEN Returned([toks EXCEPT ![s + 1] =
                         tokenCopy(@, removeAt(@.text, startIndex,
                                               diff.removed))])
       ELSE IF addLen > 0
       THEN IF s > 0 /\ startIndex = 0
            THEN Returned([toks EXCEPT ![s].text = @ \o diff.added])
            ELSE Returned([toks EXCEPT ![s + 1] =
                              tokenCopy(@, insertAt(@.text, startIndex,
                                                    diff.added))])
       ELSE NoResult
  ELSE \* Cross-token
       IF addLen > 0
       THEN crossTokenEdit(toks, s, e, startIndex, endIndex, diff.added)
       ELSE IF remLen > 0
       THEN crossTokenEdit(toks, s, e, startIndex, endIndex, <<>>)
       ELSE Returned(toks)

(***************************************************************************)
(* splitTokens: isolates [start, end) and applies an annotation to it.     *)
(***************************************************************************)
splitTokens(toks, start, end, annotations, withReplacement) ==
  LET st         == locateStart(toks, start)
      en         == locateEnd(toks, end)
      s          == st.idx
      e          == en.idx
      startIndex == st.off
      endIndex   == en.off
  IN
  IF s = e
  THEN IF s = -1 THEN Threw
       ELSE
       LET startToken  == toks[s + 1]
           firstToken  == Tok(slice(startToken.text, 0, startIndex),
                              startToken.annotations)
           middleToken == Tok(replace(slice(startToken.text, startIndex, endIndex),
                                      withReplacement),
                              concileAnnotations(startToken.annotations, annotations))
           lastToken   == Tok(replace(slice(startToken.text, endIndex,
                                            Len(startToken.text)),
                                      withReplacement),
                              startToken.annotations)
       IN Returned(slice(toks, 0, s) \o <<firstToken, middleToken, lastToken>>
                   \o sliceFrom(toks, s + 1))
  ELSE IF s = -1 \/ e = -1 THEN Threw
       ELSE
       LET startToken == toks[s + 1]
           endToken   == toks[e + 1]
           selectedTokens == slice(toks, s, e + 1)
           type == CHOOSE k \in DOMAIN annotations : TRUE
           allSelectedTokensHaveAnnotation ==
             \A i \in 1..Len(selectedTokens) :
               Get(selectedTokens[i].annotations, type) = "T"
           applied == IF allSelectedTokensHaveAnnotation THEN "F" ELSE "T"
           firstToken  == Tok(slice(startToken.text, 0, startIndex),
                              Put(startToken.annotations, type,
                                  Get(startToken.annotations, type)))
           secondToken == Tok(replace(slice(startToken.text, startIndex,
                                            Len(startToken.text)),
                                      withReplacement),
                              Put(startToken.annotations, type, applied))
           middleTokens == slice(toks, s + 1, e)
           updatedMiddleTokens ==
             [i \in 1..Len(middleTokens) |->
                Tok(middleTokens[i].text,
                    Put(middleTokens[i].annotations, type, applied))]
           secondToLastToken == Tok(slice(endToken.text, 0, endIndex),
                                    Put(endToken.annotations, type, applied))
           lastToken   == Tok(replace(slice(endToken.text, endIndex,
                                            Len(endToken.text)),
                                      withReplacement),
                              Put(endToken.annotations, type,
                                  Get(endToken.annotations, type)))
       IN Returned(slice(toks, 0, s) \o <<firstToken, secondToken>>
                   \o updatedMiddleTokens
                   \o <<secondToLastToken, lastToken>>
                   \o sliceFrom(toks, e + 1))

(***************************************************************************)
(* concatTokens: the merge pass.                                           *)
(***************************************************************************)
\* Whether the merge pass appends token's text to prevToken.
sameAnnotations(prevToken, token) ==
  LET prevTokenAnnotations == DOMAIN prevToken.annotations
  IN /\ prevTokenAnnotations # {}
     /\ \A key \in prevTokenAnnotations :
          prevToken.annotations[key] = Get(token.annotations, key)

RECURSIVE concatFrom(_, _)
concatFrom(concatenedTokens, rest) ==
  IF rest = <<>> THEN concatenedTokens
  ELSE LET token == Head(rest)
           k     == Len(concatenedTokens)
       IN IF k = 0
          THEN concatFrom(<<token>>, Tail(rest))
          ELSE IF sameAnnotations(concatenedTokens[k], token)
          THEN concatFrom([concatenedTokens EXCEPT ![k].text = @ \o token.text],
                          Tail(rest))
          ELSE concatFrom(Append(concatenedTokens, token), Tail(rest))

concatTokens(toks) == concatFrom(<<>>, toks)

(***************************************************************************)
(* insertToken: a new run carrying the pending annotations.                *)
(***************************************************************************)
\* Faulty variant of insertToken: the run is located with the strict
\* comparison, so an index on a boundary resolves to the run after it.
insertTokenStrict(toks, index, annotations, txt) ==
  LET st == locateStart(toks, index)
      s  == st.idx
      startIndex == st.off
  IN
  IF Len(Join(toks)) = index
  THEN IF toks = <<>> THEN Threw
       ELSE Returned(Append(toks,
              Tok(txt, concileAnnotations(toks[Len(toks)].annotations, annotations))))
  ELSE IF s = -1 THEN Threw
  ELSE LET startToken  == toks[s + 1]
           firstToken  == Tok(slice(startToken.text, 0, startIndex),
                              startToken.annotations)
           middleToken == Tok(txt,
                              concileAnnotations(startToken.annotations, annotations))
           lastToken   == Tok(slice(startToken.text, startIndex,
                                    Len(startToken.text)),
                              startToken.annotations)
       IN Returned(slice(toks, 0, s) \o <<firstToken, middleToken, lastToken>>
                   \o sliceFrom(toks, s + 1))

insertToken(toks, index, annotations, txt) ==
  LET st == locateEnd(toks, index)
      s  == st.idx
      startIndex == st.off
  IN
  IF Len(Join(toks)) = index
  THEN IF toks = <<>> THEN Threw
       ELSE Returned(Append(toks,
              Tok(txt, concileAnnotations(toks[Len(toks)].annotations, annotations))))
  ELSE IF s = -1 THEN Threw
  ELSE LET startToken  == toks[s + 1]
           firstToken  == Tok(slice(startToken.text, 0, startIndex),
                              startToken.annotations)
           middleToken == Tok(txt,
                              concileAnnotations(startToken.annotations, annotations))
           lastToken   == Tok(slice(startToken.text, startIndex,
                                    Len(startToken.text)),
                              startToken.annotations)
       IN Returned(slice(toks, 0, s) \o <<firstToken, middleToken, lastToken>>
                   \o sliceFrom(toks, s + 1))

(***************************************************************************)
(* The pattern table.  closing <<>> is a closing literal of null; regex    *)
(* <<>> is a regex of null, which matches no text of the model's alphabet.  *)
(* A regex  lit([^stop]+)lit  is kept as its literal and its stop character.*)
(* The backquote of the code pattern, which a TLA+ string cannot hold, is   *)
(* written "%".                                                             *)
(***************************************************************************)
Pat(style, opening, closing, regex) ==
  [style |-> style, opening |-> opening, closing |-> closing, regex |-> regex]

Re(lit, stop) == [lit |-> lit, stop |-> stop]

PATTERNS ==
  << Pat("bold",          <<"*">>,           <<"*">>,      Re(<<"*">>, "*")),
     Pat("italic",        <<"_">>,           <<"_">>,      Re(<<"_">>, "_")),
     Pat("lineThrough",   <<"~">>,           <<"~">>,      Re(<<"~">>, "~")),
     Pat("code",          <<"%">>,           <<"%">>,      Re(<<"%">>, "%")),
     Pat("underline",     <<"_", "_">>,      <<"_", "_">>, Re(<<"_", "_">>, "_")),
     Pat("heading",       <<"#">>,           <<>>,         <<>>),
     Pat("subHeading",    <<"#", "#">>,      <<>>,         <<>>),
     Pat("subSubHeading", <<"#", "#", "#">>, <<>>,         <<>>) >>

\* { [style]: true }
Only(style) == [k \in {style} |-> "T"]

(***************************************************************************)
(* findMatch and getRequiredLiterals.                                      *)
(***************************************************************************)
NoMatch == [found |-> FALSE]

\* Where the run of characters other than stop, starting at index from, ends.
runEnd(str, stop, from) ==
  LET stops == {j \in from..(Len(str) - 1) : str[j + 1] = stop}
  IN IF stops = {} THEN Len(str) ELSE CHOOSE j \in stops : \A k \in stops : j <= k

\* Whether  lit([^stop]+)lit  matches str at index i.
matchesAt(str, regex, i) ==
  LET n == Len(regex.lit)
      j == runEnd(str, regex.stop, i + n)
  IN /\ OccursAt(str, regex.lit, i)
     /\ j > i + n
     /\ OccursAt(str, regex.lit, j)

findMatch(str, regexExpression) ==
  IF regexExpression = <<>> THEN NoMatch
  ELSE LET hits == {i \in 0..Len(str) : matchesAt(str, regexExpression, i)}
       IN IF hits = {} THEN NoMatch
          ELSE LET i == CHOOSE h \in hits : \A k \in hits : h <= k
                   n == Len(regexExpression.lit)
                   j == runEnd(str, regexExpression.stop, i + n)
               IN [found      |-> TRUE,
                   content    |-> slice(str, i + n, j),
                   start      |-> i,
                   end        |-> j + n,
                   expression |-> regexExpression]

\* The opening literal getRequiredLiterals reads off a regex: the first
\* literal character before the group.
getRequiredLiterals(regexExpression) ==
  [opening |-> <<regexExpression.lit[1]>>]

\* for (const pattern of patterns) { match = findMatch(...); if (match) break; }
RECURSIVE firstMatch(_, _, _)
firstMatch(str, patterns, i) ==
  IF i > Len(patterns) THEN NoMatch
  ELSE LET m == findMatch(str, patterns[i].regex)
       IN IF m.found THEN m ELSE firstMatch(str, patterns, i + 1)

\* patterns.find(p => p.regex === match.expression)
findPattern(patterns, expression) ==
  patterns[CHOOSE i \in 1..Len(patterns) :
             /\ patterns[i].regex = expression
             /\ \A j \in 1..(i - 1) : patterns[j].regex # expression]

(***************************************************************************)
(* parseRichTextStringV2: markup string to runs.                           *)
(***************************************************************************)
\* pattern.opening && pattern.closing
bothDefined(pattern) == pattern.opening # <<>> /\ pattern.closing # <<>>

\* evenCount after the first if of a pass of the inner loop.
counted(pattern, char, evenCount) ==
  IF bothDefined(pattern) /\ evenCount < 2 /\ <<char>> = pattern.opening
  THEN evenCount + 1 ELSE evenCount

\* Whether the pass enters the second if: a match.
matched(pattern, char, evenCount) ==
  /\ bothDefined(pattern)
  /\ counted(pattern, char, evenCount) = 2
  /\ <<char>> = pattern.closing

\* One pass of the inner loop: char is the character the loop has reached.
scanChar(pattern, char, st) ==
  LET evenCount == counted(pattern, char, st.evenCount)
      fire == matched(pattern, char, st.evenCount)
      openingIndex == indexOf(st.copyOfString, pattern.opening, 0)
      closingIndex == indexOf(st.copyOfString, pattern.closing, openingIndex + 1)
      r == splitTokens(st.tokens, openingIndex, closingIndex,
                       Only(pattern.style), pattern.opening)
  IN IF ~fire THEN [st EXCEPT !.evenCount = evenCount]
     ELSE IF r.threw THEN [st EXCEPT !.threw = TRUE]
     ELSE [copyOfString |-> r.plain_text, tokens |-> r.result,
           evenCount |-> evenCount, threw |-> FALSE]

RECURSIVE scanChars(_, _, _)
\* The inner loop over the characters the working copy had when the loop began.
scanChars(pattern, chars, st) ==
  IF chars = <<>> \/ st.threw THEN st
  ELSE scanChars(pattern, Tail(chars), scanChar(pattern, Head(chars), st))

RECURSIVE scanPatterns(_, _, _)
scanPatterns(patterns, i, st) ==
  IF i > Len(patterns) \/ st.threw THEN st
  ELSE scanPatterns(patterns, i + 1,
         scanChars(patterns[i], st.copyOfString, [st EXCEPT !.evenCount = 0]))

parseRichTextStringV2(richTextString, patterns) ==
  LET st == scanPatterns(patterns, 1,
              [copyOfString |-> richTextString,
               tokens |-> <<Tok(richTextString, EmptyAnn)>>,
               evenCount |-> 0, threw |-> FALSE])
  IN [threw |-> st.threw, tokens |-> st.tokens, plain_text |-> st.copyOfString]

(***************************************************************************)
(* parseTokens: runs to markup string.                                     *)
(***************************************************************************)
\* `${wrapper}`: a string is written as it is, a literal of null as the four
\* characters of "null" (a literal left out of the pattern, undefined, is
\* written as the characters of "undefined" in the same way).
template(wrapper) ==
  IF wrapper = <<>> THEN <<"n", "u", "l", "l">> ELSE wrapper

RECURSIVE wrap(_, _, _, _)
\* patterns.forEach collects the wrappers, reduce applies them in that order.
wrap(children, annotations, patterns, i) ==
  IF i > Len(patterns) THEN children
  ELSE IF Truthy(Get(annotations, patterns[i].style))
       THEN wrap(template(patterns[i].opening) \o children
                   \o template(patterns[i].opening),
                 annotations, patterns, i + 1)
       ELSE wrap(children, annotations, patterns, i + 1)

RECURSIVE parseTokens(_, _)
parseTokens(toks, patterns) ==
  IF toks = <<>> THEN <<>>
  ELSE wrap(Head(toks).text, Head(toks).annotations, patterns, 1)
       \o parseTokens(Tail(toks), patterns)

(***************************************************************************)
(* The RichTextInput component: its state and its handlers.                *)
(*   tokens     useState: the run list, as the last committed render holds  *)
(*   prevText   prevTextRef.current: the snapshot the next diff is against  *)
(*   toSplit    useState: the pending style and its anchor                  *)
(*   selection  selectionRef.current                                        *)
(*   text       the flat text the native input holds                        *)
(*   last       the last event handled: its name, the path the handler took *)
(*              and whether it raised an error                              *)
(*   input      SpecToggle: the run list and the style it started from;     *)
(*              SpecParse: the markup string handed to setValue             *)
(*   output     SpecToggle: the number of toggles made; SpecParse: the      *)
(*              string getRichTextString returned                           *)
(***************************************************************************)
\* The run of the initial state and of the reset.
EmptyToken ==
  Tok(<<>>, [k \in {"bold", "italic", "lineThrough", "underline", "code"} |-> "F"])

NoPending == [start |-> 0, end |-> 0, annotations |-> EmptyAnn]

\* Faulty variant of commit: the effect that resets an empty run list is
\* missing.
commitAsIs(toks) == toks

\* useEffect on [tokens]: an empty run list is replaced by the single empty
\* run before the next event is handled.
commit(toks) == IF Len(toks) = 0 THEN <<EmptyToken>> ELSE toks

\* Object.values(annotations).some(Boolean)
someTruthy(annotations) == \E k \in DOMAIN annotations : Truthy(annotations[k])

\* What a handler leaves behind: the state it wrote (set is FALSE when
\* setTokens was not called), the path taken and whether it raised an error.
Outcome(toks, prev, pending, set, path, threw) ==
  [tokens |-> toks, prevText |-> prev, toSplit |-> pending,
   set |-> set, path |-> path, threw |-> threw]

handleOnChangeText(toks, prev, pending, nextText) ==
  LET diff  == diffStrings(prev, nextText)
      match == firstMatch(nextText, PATTERNS, 1)
  IN
  IF match.found
  THEN LET annotation == findPattern(PATTERNS, match.expression)
           r == splitTokens(toks, match.start, match.end - 1,
                            Only(annotation.style),
                            getRequiredLiterals(match.expression).opening)
       IN IF r.threw
          THEN Outcome(toks, prev, pending, FALSE, "match", TRUE)
          ELSE Outcome(concatTokens(r.result), Join(r.result), pending,
                       TRUE, "match", FALSE)
  ELSE IF /\ someTruthy(pending.annotations)
          /\ diff.start = pending.start
          /\ diff.start = pending.end
  THEN LET r == insertToken(toks, diff.start, pending.annotations, diff.added)
       IN IF r.threw
          THEN Outcome(toks, prev, pending, FALSE, "pending", TRUE)
          ELSE Outcome(concatTokens(r.result), Join(r.result), NoPending,
                       TRUE, "pending", FALSE)
  ELSE LET r == updateTokens(toks, diff)
       IN IF r.threw
          THEN Outcome(toks, prev, pending, FALSE, "default", TRUE)
          ELSE Outcome(concatTokens(r.result), r.plain_text, pending,
                       TRUE, "default", FALSE)

\* toggleStyle: setToSplit is queued before splitTokens runs, so the pending
\* state is written also when splitTokens raises.
toggleStyle(toks, prev, pending, sel, style) ==
  LET armed == concileAnnotations(pending.annotations, Only(style))
  IN
  IF sel.start = sel.end
  THEN Outcome(toks, prev,
               [start |-> sel.start, end |-> sel.end, annotations |-> armed],
               FALSE, "collapsed", FALSE)
  ELSE LET after == IF sel.start < sel.end
                    THEN [start |-> sel.end, end |-> sel.end, annotations |-> armed]
                    ELSE pending
           r == splitTokens(toks, sel.start, sel.end, Only(style), <<>>)
       IN IF r.threw
          THEN Outcome(toks, prev, after, FALSE, "range", TRUE)
          ELSE Outcome(concatTokens(r.result), prev, after, TRUE, "range", FALSE)

\* setValue with a string.
setValueString(toks, prev, pending, value) ==
  LET r == parseRichTextStringV2(value, PATTERNS)
  IN IF r.threw
     THEN Outcome(toks, prev, pending, FALSE, "string", TRUE)
     ELSE Outcome(r.tokens, r.plain_text, pending, TRUE, "string", FALSE)

\* setValue with a run list: the previous-text snapshot is not written.
setValueTokens(toks, prev, pending, value) ==
  Outcome(value, prev, pending, TRUE, "tokens", FALSE)

\* getRichTextString
getRichTextString(toks) == parseTokens(toks, PATTERNS)

(***************************************************************************)
(* The inputs of the events.                                               *)
(***************************************************************************)
Strings(chars, n) == UNION {[1..k -> chars] : k \in 0..n}

\* The texts the input adapter can report next: the text it holds with one
\* contiguous range replaced by typed or pasted characters.
Edits(t) ==
  {nextText \in
     {slice(t, 0, i) \o x \o sliceFrom(t, j) :
        i \in 0..Len(t), j \in 0..Len(t), x \in Strings(TypeChars, MaxTyped)} :
     Len(nextText) <= MaxTyped /\ nextText # t}

\* Markup strings handed to setValue: the empty string, a bold run, an
\* italic run before plain text, two bold runs side by side.
ValueStrings ==
  { <<>>,
    <<"*", "a", "*">>,
    <<"_", "a", "_", "a">>,
    <<"*", "a", "*", "*", "a", "*">> }

\* Run lists handed to setValue: the empty list, a bold run, and an italic
\* run followed by a run that is bold as well.
ValueTokens ==
  { <<>>,
    <<Tok(<<"a">>, Only("bold"))>>,
    <<Tok(<<"a">>, Only("italic")),
      Tok(<<"a">>, [k \in {"bold", "italic"} |-> "T"])>> }

(***************************************************************************)
(* The events.  A handler that called setTokens is followed by the render   *)
(* and its effect (commit), after which the native input holds the runs'    *)
(* text; a handler that raised leaves what it had written.                  *)
(***************************************************************************)
Event(op, o) == [op |-> op, path |-> o.path, threw |-> o.threw]

Apply(o) ==
  /\ tokens'   = IF o.set THEN commit(o.tokens) ELSE tokens
  /\ prevText' = o.prevText
  /\ toSplit'  = o.toSplit

\* An error raised by a handler is not caught by the component: no further
\* event is delivered to it.
Running == ~last.threw

Init ==
  /\ tokens    = <<EmptyToken>>
  /\ prevText  = Join(<<EmptyToken>>)
  /\ toSplit   = NoPending
  /\ selection = [start |-> 0, end |-> 0]
  /\ text      = <<>>
  /\ last      = [op |-> "init", path |-> "", threw |-> FALSE]
  /\ input     = <<>>
  /\ output    = <<>>

OnSelectionChange(start, end) ==
  /\ Running
  /\ selection' = [start |-> start, end |-> end]
  /\ last' = [op |-> "onSelectionChange", path |-> "", threw |-> FALSE]
  /\ UNCHANGED <<tokens, prevText, toSplit, text>>

OnChangeText(nextText) ==
  \E o \in {handleOnChangeText(tokens, prevText, toSplit, nextText)} :
     /\ Running
     /\ Apply(o)
     /\ text' = IF o.set THEN Join(commit(o.tokens)) ELSE text
     /\ last' = Event("onChangeText", o)
     /\ UNCHANGED selection

\* selectionRef holds the selection reported last: after an edit or a
\* setValue that shortened the text it can lie beyond the end of the text.
ToggleStyle(style) ==
  \E o \in {toggleStyle(tokens, prevText, toSplit, selection, style)} :
     /\ Running
     /\ Apply(o)
     /\ text' = IF o.set THEN Join(commit(o.tokens)) ELSE text
     /\ last' = Event("toggleStyle", o)
     /\ UNCHANGED selection

SetValueString(value) ==
  \E o \in {setValueString(tokens, prevText, toSplit, value)} :
     /\ Running
     /\ Apply(o)
     /\ text' = IF o.set THEN Join(commit(o.tokens)) ELSE text
     /\ last' = Event("setValue", o)
     /\ UNCHANGED selection

SetValueTokens(value) ==
  \E o \in {setValueTokens(tokens, prevText, toSplit, value)} :
     /\ Running
     /\ Apply(o)
     /\ text' = Join(commit(o.tokens))
     /\ last' = Event("setValue", o)
     /\ UNCHANGED selection

\* The text of the runs is capped at MaxLen characters: an edit whose result
\* would be longer is not taken.
Next ==
  /\ \/ \E start \in 0..Len(text) : \E end \in start..Len(text) :
          OnSelectionChange(start, end)
     \/ \E nextText \in Edits(text) : OnChangeText(nextText) /\ Len(text') <= MaxLen
     \/ \E style \in ToggleStyles : ToggleStyle(style)
     \/ \E value \in ValueStrings : SetValueString(value)
     \/ \E value \in ValueTokens : SetValueTokens(value)
  /\ UNCHANGED <<input, output>>

Spec == Init /\ [][Next]_vars

(***************************************************************************)
(* toggleStyle over a selection, started from any run list.  setValue       *)
(* accepts every run list, so SpecToggle starts from each list of up to     *)
(* MaxRuns non-empty runs over the text "abc" whose neighbours differ in    *)
(* their annotations, with a non-collapsed selection and a style; input     *)
(* holds that starting point and output counts the toggles made since.      *)
(***************************************************************************)
MaxRuns == 3

MaxToggles == 2

RunAnnotations ==
  { EmptyAnn, Only("bold"), Only("italic"),
    [k \in {"bold", "italic"} |-> "T"],
    EmptyToken.annotations,
    Put(EmptyToken.annotations, "bold", "T") }

\* The ways to cut txt into n non-empty runs' texts.
RECURSIVE Cuts(_, _)
Cuts(txt, n) ==
  IF n = 1 THEN IF Len(txt) > 0 THEN {<<txt>>} ELSE {}
  ELSE UNION { {<<slice(txt, 0, k)>> \o rest : rest \in Cuts(sliceFrom(txt, k), n - 1)} :
               k \in 1..(Len(txt) - 1) }

RunLists ==
  UNION { UNION { { [i \in 1..n |-> Tok(cut[i], anns[i])] :
                    anns \in {a \in [1..n -> RunAnnotations] :
                                \A i \in 1..(n - 1) : a[i] # a[i + 1]} } :
                  cut \in Cuts(slice(<<"a", "b", "c">>, 0, len), n) } :
          len \in 1..MaxRuns, n \in 1..MaxRuns }

InitToggle ==
  /\ tokens \in RunLists
  /\ prevText = Join(tokens)
  /\ text = Join(tokens)
  /\ toSplit = NoPending
  /\ \E start \in 0..(Len(text) - 1) : \E end \in (start + 1)..Len(text) :
       selection = [start |-> start, end |-> end]
  /\ last = [op |-> "init", path |-> "", threw |-> FALSE]
  /\ \E style \in {"bold", "italic"} : input = [tokens |-> tokens, style |-> style]
  /\ output = 0

ToggleAgain ==
  /\ output < MaxToggles
  /\ ToggleStyle(input.style)
  /\ output' = output + 1
  /\ UNCHANGED input

NextToggle == ToggleAgain

SpecToggle == InitToggle /\ [][NextToggle]_vars

(***************************************************************************)
(* The markup round trip.  SpecParse hands a markup string to setValue and  *)
(* reads it back with getRichTextString: input is the string, output the    *)
(* string read back.  A markup string is up to MaxSegs segments, each a     *)
(* letter, plain or wrapped in the delimiters of one inline pattern.        *)
(***************************************************************************)
\* The patterns with an opening and a closing literal.
InlinePatterns ==
  {PATTERNS[i] : i \in {j \in 1..Len(PATTERNS) : PATTERNS[j].closing # <<>>}}

Segments ==
  {<<c>> : c \in {"a", "b"}}
    \cup {p.opening \o <<c>> \o p.closing : p \in InlinePatterns, c \in {"a", "b"}}

RECURSIVE Flatten(_)
Flatten(segs) == IF segs = <<>> THEN <<>> ELSE Head(segs) \o Flatten(Tail(segs))

MarkupStrings ==
  {Flatten(segs) : segs \in UNION {[1..n -> Segments] : n \in 1..MaxSegs}}

InitParse ==
  /\ tokens    = <<EmptyToken>>
  /\ prevText  = Join(<<EmptyToken>>)
  /\ toSplit   = NoPending
  /\ selection = [start |-> 0, end |-> 0]
  /\ text      = <<>>
  /\ last      = [op |-> "init", path |-> "", threw |-> FALSE]
  /\ input \in MarkupStrings
  /\ output    = <<>>

SetInput ==
  /\ last.op = "init"
  /\ SetValueString(input)
  /\ UNCHANGED <<input, output>>

GetRichTextString ==
  /\ last.op = "setValue"
  /\ Running
  /\ output' = getRichTextString(tokens)
  /\ last' = [op |-> "getRichTextString", path |-> "", threw |-> FALSE]
  /\ UNCHANGED <<tokens, prevText, toSplit, selection, text, input>>

NextParse == SetInput \/ GetRichTextString

SpecParse == InitParse /\ [][NextParse]_vars

(***************************************************************************)
(* Typing a word and styling it.  SpecTyping types a delimiter-free word    *)
(* of up to MaxWord characters into the initial state, one character at a   *)
(* time at the end of the buffer, selects the whole word, calls             *)
(* toggleStyle("bold") up to MaxToggles times and reads the markup back     *)
(* after each toggle: input holds the word typed and the number of toggles  *)
(* made, output the string getRichTextString returned.                      *)
(***************************************************************************)
MaxWord == 4

WordChars == {"a", "b"}

InitTyping ==
  /\ tokens    = <<EmptyToken>>
  /\ prevText  = Join(<<EmptyToken>>)
  /\ toSplit   = NoPending
  /\ selection = [start |-> 0, end |-> 0]
  /\ text      = <<>>
  /\ last      = [op |-> "init", path |-> "", threw |-> FALSE]
  /\ input     = [typed |-> <<>>, toggles |-> 0]
  /\ output    = <<>>

TypeAtEnd(c) ==
  /\ last.op \in {"init", "onChangeText"}
  /\ Len(input.typed) < MaxWord
  /\ OnChangeText(text \o <<c>>)
  /\ input' = [input EXCEPT !.typed = input.typed \o <<c>>]
  /\ UNCHANGED output

SelectAll ==
  /\ last.op = "onChangeText"
  /\ OnSelectionChange(0, Len(text))
  /\ UNCHANGED <<input, output>>

ToggleBold ==
  /\ last.op \in {"onSelectionChange", "getRichTextString"}
  /\ input.toggles < MaxToggles
  /\ ToggleStyle("bold")
  /\ input' = [input EXCEPT !.toggles = input.toggles + 1]
  /\ UNCHANGED output

ReadRichText ==
  /\ last.op = "toggleStyle"
  /\ Running
  /\ output' = getRichTextString(tokens)
  /\ last' = [op |-> "getRichTextString", path |-> "", threw |-> FALSE]
  /\ UNCHANGED <<tokens, prevText, toSplit, selection, text, input>>

NextTyping ==
  \/ \E c \in WordChars : TypeAtEnd(c)
  \/ SelectAll
  \/ ToggleBold
  \/ ReadRichText

SpecTyping == InitTyping /\ [][NextTyping]_vars

(***************************************************************************)
(* diffStrings on single insertions: a previous text, an offset into it and *)
(* a non-empty inserted string are drawn, and the function is applied to    *)
(* the previous text and the text with the insertion made.                  *)
(***************************************************************************)
MaxPrev == 3
MaxInserted == 2

InitDiff ==
  /\ tokens = <<EmptyToken>>
  /\ prevText = <<>>
  /\ toSplit = NoPending
  /\ selection = [start |-> 0, end |-> 0]
  /\ text = <<>>
  /\ last = [op |-> "init", path |-> "", threw |-> FALSE]
  /\ \E prev \in Strings(WordChars, MaxPrev) :
       \E p \in 0..MaxPrev :
         \E x \in Strings(WordChars, MaxInserted) \ {<<>>} :
           /\ p <= Len(prev)
           /\ input = [prev |-> prev, p |-> p, x |-> x,
                       next |-> insertAt(prev, p, x)]
  /\ output = <<>>

DiffStrings ==
  /\ last.op = "init"
  /\ output' = diffStrings(input.prev, input.next)
  /\ last' = [op |-> "diffStrings", path |-> "", threw |-> FALSE]
  /\ UNCHANGED <<tokens, prevText, toSplit, selection, text, input>>

NextDiff == DiffStrings

SpecDiff == InitDiff /\ [][NextDiff]_vars

(***************************************************************************)
(* Run objects and renders.  A run is a JavaScript object: a list holds    *)
(* references, and a write to a run's text is seen through every list that  *)
(* holds the run.  A run with a ref field is an object that existed before  *)
(* the routine at hand ran; the runs a routine builds (Tok) have none until *)
(* they are stored.  The handlers are closures of the last render: they     *)
(* read the tokens and toSplit of that render (input.view, input.toSplit),  *)
(* while setTokens and setToSplit write the state the next render will      *)
(* show (input.live and tokens, toSplit).                                   *)
(*   input   live: the run objects of the state written last; view,         *)
(*           toSplit: the state of the last render; handled: the events     *)
(*           handled since that render; events: the events handled in all   *)
(*   output  the list getTokenizedString returned last, with the values     *)
(*           its runs had when it was returned                              *)
(***************************************************************************)
MaxUnrendered == 2
MaxEvents == 2
RenderStyles == {"bold", "italic"}

Obj(token, k) == [text |-> token.text, annotations |-> token.annotations, ref |-> k]

isObj(token) == "ref" \in DOMAIN token

refsOf(list) == {list[i].ref : i \in {j \in 1..Len(list) : isObj(list[j])}}

\* The runs of a list as values.
values(list) == [i \in 1..Len(list) |-> Tok(list[i].text, list[i].annotations)]

\* The text object k has in a list that holds it.
textIn(list, k) ==
  LET i == CHOOSE j \in 1..Len(list) : isObj(list[j]) /\ list[j].ref = k
  IN list[i].text

\* A list of objects after the writes a routine made: the objects in the
\* routine's working list (first) and in the list it returned (second) have
\* the text they have there.
store(list, first, second) ==
  [i \in 1..Len(list) |->
     IF list[i].ref \in refsOf(second)
     THEN [list[i] EXCEPT !.text = textIn(second, list[i].ref)]
     ELSE IF list[i].ref \in refsOf(first)
     THEN [list[i] EXCEPT !.text = textIn(first, list[i].ref)]
     ELSE list[i]]

RECURSIVE allocate(_, _)
\* The runs a routine built become objects of their own.
allocate(list, used) ==
  IF list = <<>> THEN <<>>
  ELSE IF isObj(Head(list))
  THEN <<Head(list)>> \o allocate(Tail(list), used)
  ELSE LET k == CHOOSE n \in 1..(Cardinality(used) + 1) :
                  n \notin used /\ \A m \in 1..(n - 1) : m \in used
       IN <<Obj(Head(list), k)>> \o allocate(Tail(list), used \cup {k})

\* The list of objects setTokens was called with, or the state as it was
\* when the handler did not call it.
written(o, working) ==
  IF o.set
  THEN allocate(o.tokens, refsOf(o.tokens) \cup refsOf(input.view)
                            \cup (IF output = <<>> THEN {} ELSE refsOf(output.list)))
  ELSE store(input.live, working, o.tokens)

\* What a handler that read the last render's state leaves behind.  The
\* pending state a handler hands back differs from the one it read exactly
\* when it called setToSplit.
Handled(o, working) ==
  /\ tokens' = values(written(o, working))
  /\ prevText' = o.prevText
  /\ toSplit' = IF o.toSplit = input.toSplit THEN toSplit ELSE o.toSplit
  /\ input' = [live    |-> written(o, working),
               view    |-> store(input.view, working, o.tokens),
               toSplit |-> input.toSplit,
               handled |-> input.handled + 1,
               events  |-> input.events + 1]
  /\ output' = IF output = <<>> THEN output
               ELSE [output EXCEPT !.list = store(@, working, o.tokens)]
  /\ UNCHANGED selection

InitRender ==
  /\ tokens    = <<EmptyToken>>
  /\ prevText  = Join(<<EmptyToken>>)
  /\ toSplit   = NoPending
  /\ selection = [start |-> 0, end |-> 0]
  /\ text      = <<>>
  /\ last      = [op |-> "init", path |-> "", threw |-> FALSE]
  /\ input     = [live |-> <<Obj(EmptyToken, 1)>>, view |-> <<Obj(EmptyToken, 1)>>,
                  toSplit |-> NoPending, handled |-> 0, events |-> 0]
  /\ output    = <<>>

\* handleOnChangeText as the closure of the last render.  The default path
\* runs updateTokens, whose working list holds the objects it wrote to.
HandleChangeText(nextText) ==
  \E o \in {handleOnChangeText(input.view, prevText, input.toSplit, nextText)} :
     /\ Running
     /\ input.handled < MaxUnrendered
     /\ input.events < MaxEvents
     /\ Handled(o, IF o.path = "default" /\ ~o.threw
                   THEN updateTokens(input.view,
                                     diffStrings(prevText, nextText)).updatedTokens
                   ELSE <<>>)
     /\ text' = nextText
     /\ last' = Event("onChangeText", o)

\* toggleStyle as the method of the handle built by the last render.
HandleToggleStyle(style) ==
  \E o \in {toggleStyle(input.view, prevText, input.toSplit, selection, style)} :
     /\ Running
     /\ input.handled < MaxUnrendered
     /\ input.events < MaxEvents
     /\ Handled(o, <<>>)
     /\ text' = text
     /\ last' = Event("toggleStyle", o)

HandleSelectionChange(start, end) ==
  /\ OnSelectionChange(start, end)
  /\ UNCHANGED <<input, output>>

\* getTokenizedString returns the tokens of the last render.  One list is
\* followed: the one returned first.
GetTokenizedString ==
  /\ Running
  /\ output = <<>>
  /\ output' = [list |-> input.view, returned |-> values(input.view)]
  /\ last' = [op |-> "getTokenizedString", path |-> "", threw |-> FALSE]
  /\ UNCHANGED <<tokens, prevText, toSplit, selection, text, input>>

\* The render that follows the state writes, with its effect: the handlers
\* and the handle are built anew from the state written last, and the
\* native input shows the runs' text.
Render ==
  /\ Running
  /\ input.handled > 0
  /\ \E live \in {IF Len(input.live) = 0
                  THEN allocate(commit(<<>>),
                                refsOf(input.view)
                                  \cup (IF output = <<>> THEN {}
                                        ELSE refsOf(output.list)))
                  ELSE input.live} :
       /\ tokens' = values(live)
       /\ text' = Join(live)
       /\ input' = [live |-> live, view |-> live, toSplit |-> toSplit,
                    handled |-> 0, events |-> input.events]
  /\ last' = [op |-> "render", path |-> "", threw |-> FALSE]
  /\ UNCHANGED <<prevText, toSplit, selection, output>>

NextRender ==
  \/ \E start \in 0..Len(text) : \E end \in start..Len(text) :
       HandleSelectionChange(start, end)
  \/ \E nextText \in Edits(text) : HandleChangeText(nextText) /\ Len(text') <= MaxLen
  \/ \E style \in RenderStyles : HandleToggleStyle(style)
  \/ GetTokenizedString
  \/ Render

SpecRender == InitRender /\ [][NextRender]_vars

(***************************************************************************)
(* The patterns prop.  SpecPatterns mounts the component with a pattern     *)
(* table of its own, hands a run list over the table's styles to setValue   *)
(* and reads the markup back: input is the table and the run list, output   *)
(* the string getRichTextString returned.                                   *)
(***************************************************************************)
MaxPatterns == 2
MaxValueRuns == 2

\* The literals a pattern of a table can have: none (null), "*", "<", ">".
Literals == {<<>>, <<"*">>, <<"<">>, <<">">>}

TableStyles == <<"bold", "mention">>

\* The tables of up to MaxPatterns patterns, the i-th for the i-th style.
PatternTables ==
  UNION {{[i \in 1..n |-> Pat(TableStyles[i], lits[i][1], lits[i][2], <<>>)] :
            lits \in [1..n -> Literals \X Literals]} :
         n \in 1..MaxPatterns}

\* Run lists over the styles of the tables, each run one character long.
ValueRuns ==
  UNION {[1..n -> {Tok(<<"a">>, a) : a \in [{"bold", "mention"} -> {"T", "F"}]}] :
         n \in 1..MaxValueRuns}

InitPatterns ==
  /\ tokens    = <<EmptyToken>>
  /\ prevText  = Join(<<EmptyToken>>)
  /\ toSplit   = NoPending
  /\ selection = [start |-> 0, end |-> 0]
  /\ text      = <<>>
  /\ last      = [op |-> "init", path |-> "", threw |-> FALSE]
  /\ \E patterns \in PatternTables : \E value \in ValueRuns :
       input = [patterns |-> patterns, value |-> value]
  /\ output    = <<>>

\* setValue with the run list.
SetValueRuns ==
  /\ last.op = "init"
  /\ SetValueTokens(input.value)
  /\ UNCHANGED <<input, output>>

\* getRichTextString with the table of the props.
GetRichTextStringWith ==
  /\ last.op = "setValue"
  /\ Running
  /\ output' = parseTokens(tokens, input.patterns)
  /\ last' = [op |-> "getRichTextString", path |-> "", threw |-> FALSE]
  /\ UNCHANGED <<tokens, prevText, toSplit, selection, text, input>>

NextPatterns == SetValueRuns \/ GetRichTextStringWith

SpecPatterns == InitPatterns /\ [][NextPatterns]_vars

(***************************************************************************)
(* getActiveStyles of the EnrichedTextInput component: the styles of the    *)
(* run at the cursor.  SpecActive starts from the initial run list or from  *)
(* a run list handed to setValue, with a selection inside the text, and     *)
(* calls getActiveStyles once: output is what the call returned.            *)
(***************************************************************************)
\* Faulty variant of findTokens: the run is located with a strict
\* comparison, so no run is found for a cursor at the end of the text.
findTokensStrict(toks, start) == locateStart(toks, start)

\* findTokens without an end: the first run with startIndex <=
\* token.text.length; idx -1 stands for result: [undefined].
findTokens(toks, start) == locateEnd(toks, start)

\* getActiveStyles: result[0].annotations raises a TypeError when no run was
\* found.
getActiveStyles(toks, sel) ==
  LET found == findTokens(toks, sel.start)
  IN IF found.idx = -1
     THEN [threw |-> TRUE, styles |-> {}]
     ELSE LET annotations == toks[found.idx + 1].annotations
          IN [threw |-> FALSE,
              styles |-> {key \in DOMAIN annotations : Truthy(annotations[key])}]

InitActive ==
  /\ tokens \in RunLists \cup {<<EmptyToken>>}
  /\ prevText = Join(tokens)
  /\ text = Join(tokens)
  /\ toSplit = NoPending
  /\ \E start \in 0..MaxRuns : \E end \in 0..MaxRuns :
       /\ start <= end
       /\ end <= Len(text)
       /\ selection = [start |-> start, end |-> end]
  /\ last = [op |-> "init", path |-> "", threw |-> FALSE]
  /\ input = <<>>
  /\ output = <<>>

GetActiveStyles ==
  /\ last.op = "init"
  /\ output' = getActiveStyles(tokens, selection)
  /\ last' = [op |-> "getActiveStyles", path |-> "", threw |-> output'.threw]
  /\ UNCHANGED <<tokens, prevText, toSplit, selection, text, input>>

NextActive == GetActiveStyles

SpecActive == InitActive /\ [][NextActive]_vars

(***************************************************************************)
(* updateTokens on its own.  SpecUpdate starts from the initial run list or *)
(* from a run list of up to MaxRuns runs over "abc", with a diff against    *)
(* the text of the runs: a start offset, the removed characters the text    *)
(* has from there, and up to MaxAdded added characters "x".  input is the   *)
(* diff, output what updateTokens returned for the run list and the diff.   *)
(***************************************************************************)
MaxAdded == 3

AddedStrings == {[i \in 1..k |-> "x"] : k \in 0..MaxAdded}

Diffs(toks) ==
  {d \in {[start |-> s, removed |-> slice(Join(toks), s, s + r), added |-> x] :
            s \in 0..MaxRuns, r \in 0..MaxRuns, x \in AddedStrings} :
     d.start + Len(d.removed) <= Len(Join(toks)) /\ d.start <= Len(Join(toks))}

InitUpdate ==
  /\ tokens \in RunLists \cup {<<EmptyToken>>}
  /\ prevText = Join(tokens)
  /\ text = Join(tokens)
  /\ toSplit = NoPending
  /\ selection = [start |-> 0, end |-> 0]
  /\ last = [op |-> "init", path |-> "", threw |-> FALSE]
  /\ input \in Diffs(tokens)
  /\ output = <<>>

UpdateTokens ==
  /\ last.op = "init"
  /\ output' = updateTokens(tokens, input)
  /\ last' = [op |-> "updateTokens", path |-> "", threw |-> output'.threw]
  /\ UNCHANGED <<tokens, prevText, toSplit, selection, text, input>>

NextUpdate == UpdateTokens

SpecUpdate == InitUpdate /\ [][NextUpdate]_vars

(***************************************************************************)
(* concatTokens on its own.  SpecConcat starts from a list of up to MaxRuns *)
(* runs of one character each, with any annotations of RunAnnotations, and  *)
(* runs the merge pass over it: output is the list it returned.             *)
(***************************************************************************)
ConcatLists ==
  UNION {[1..n -> {Tok(<<c>>, a) : c \in {"a"}, a \in RunAnnotations}] :
         n \in 1..MaxRuns}

InitConcat ==
  /\ tokens \in ConcatLists
  /\ prevText = Join(tokens)
  /\ text = Join(tokens)
  /\ toSplit = NoPending
  /\ selection = [start |-> 0, end |-> 0]
  /\ last = [op |-> "init", path |-> "", threw |-> FALSE]
  /\ input = <<>>
  /\ output = <<>>

ConcatTokens ==
  /\ last.op = "init"
  /\ output' = concatTokens(tokens)
  /\ last' = [op |-> "concatTokens", path |-> "", threw |-> FALSE]
  /\ UNCHANGED <<tokens, prevText, toSplit, selection, text, input>>

NextConcat == ConcatTokens

SpecConcat == InitConcat /\ [][NextConcat]_vars

(***************************************************************************)
(* concileAnnotations on its own.  SpecConcile draws a previous mapping and *)
(* a new one over the keys bold and italic, with values true, false, a      *)
(* string and null, and applies the new mapping once and then once more to  *)
(* the result: input holds the two mappings, output the results so far.     *)
(***************************************************************************)
MaxConciles == 2

AnnotationValues == {"T", "F", "S", "N"}

Mappings == UNION {[keys -> AnnotationValues] : keys \in SUBSET {"bold", "italic"}}

InitConcile ==
  /\ tokens = <<EmptyToken>>
  /\ prevText = <<>>
  /\ text = <<>>
  /\ toSplit = NoPending
  /\ selection = [start |-> 0, end |-> 0]
  /\ last = [op |-> "init", path |-> "", threw |-> FALSE]
  /\ \E prevAnnotations \in Mappings : \E newAnnotations \in Mappings :
       input = [prevAnnotations |-> prevAnnotations,
                newAnnotations |-> newAnnotations]
  /\ output = <<>>

\* concileAnnotations applied to the previous mapping, or to the result of
\* the application before.
ConcileAnnotations ==
  /\ Len(output) < MaxConciles
  /\ output' = Append(output,
                 concileAnnotations(IF output = <<>> THEN input.prevAnnotations
                                    ELSE output[Len(output)],
                                    input.newAnnotations))
  /\ last' = [op |-> "concileAnnotations", path |-> "", threw |-> FALSE]
  /\ UNCHANGED <<tokens, prevText, toSplit, selection, text, input>>

NextConcile == ConcileAnnotations

SpecConcile == InitConcile /\ [][NextConcile]_vars

(***************************************************************************)
(* parseRichTextStringV2 one loop pass at a time.  SpecScan draws a string  *)
(* over two letters and the delimiters of bold and italic, balanced or not, *)
(* and a pattern table; input holds them.  output is the state of the       *)
(* function: the working copy and the runs, the index i of the pattern the  *)
(* outer loop is at, the characters the inner loop has still to visit,      *)
(* evenCount, the number of matches so far, and whether the function has    *)
(* returned or raised.                                                      *)
(***************************************************************************)
MaxMarkup == 4

MarkupChars == {"a", "b", "*", "_"}

\* The default table, and the tables of one pattern whose literals are each
\* null, "*" or "_".
ScanTables ==
  {PATTERNS} \cup {<<Pat("bold", opening, closing, <<>>)>> :
                     opening \in {<<>>, <<"*">>, <<"_">>},
                     closing \in {<<>>, <<"*">>, <<"_">>}}

\* The first statements of the function and of the outer loop's first pass.
scanBegin(richTextString, patterns) ==
  [copyOfString |-> richTextString,
   tokens |-> <<Tok(richTextString, EmptyAnn)>>,
   evenCount |-> 0, threw |-> FALSE,
   i |-> 1, chars |-> richTextString, matches |-> 0, returned |-> FALSE]

InitScan ==
  /\ tokens = <<EmptyToken>>
  /\ prevText = <<>>
  /\ text = <<>>
  /\ toSplit = NoPending
  /\ selection = [start |-> 0, end |-> 0]
  /\ last = [op |-> "init", path |-> "", threw |-> FALSE]
  /\ \E richTextString \in Strings(MarkupChars, MaxMarkup) :
       \E patterns \in ScanTables :
         input = [richTextString |-> richTextString, patterns |-> patterns]
  /\ output = scanBegin(input.richTextString, input.patterns)

ScanRunning == ~output.returned /\ ~output.threw

\* One pass of the inner loop.
ScanChar ==
  /\ ScanRunning
  /\ output.i <= Len(input.patterns)
  /\ output.chars # <<>>
  /\ \E st \in {scanChar(input.patterns[output.i], Head(output.chars),
                         [copyOfString |-> output.copyOfString,
                          tokens |-> output.tokens,
                          evenCount |-> output.evenCount,
                          threw |-> FALSE])} :
       output' = [copyOfString |-> st.copyOfString, tokens |-> st.tokens,
                  evenCount |-> st.evenCount, threw |-> st.threw,
                  i |-> output.i, chars |-> Tail(output.chars),
                  matches |-> IF matched(input.patterns[output.i],
                                         Head(output.chars), output.evenCount)
                              THEN output.matches + 1 ELSE output.matches,
                  returned |-> FALSE]
  /\ last' = [op |-> "scanChar", path |-> "", threw |-> output'.threw]
  /\ UNCHANGED <<tokens, prevText, toSplit, selection, text, input>>

\* The inner loop is over: the outer loop takes the next pattern and the
\* inner loop starts over the working copy as it is now.
ScanNextPattern ==
  /\ ScanRunning
  /\ output.i <= Len(input.patterns)
  /\ output.chars = <<>>
  /\ output' = [output EXCEPT !.i = output.i + 1,
                              !.evenCount = 0,
                              !.chars = output.copyOfString]
  /\ last' = [op |-> "nextPattern", path |-> "", threw |-> FALSE]
  /\ UNCHANGED <<tokens, prevText, toSplit, selection, text, input>>

\* return { tokens, plain_text: copyOfString }
ScanReturn ==
  /\ ScanRunning
  /\ output.i > Len(input.patterns)
  /\ output' = [output EXCEPT !.returned = TRUE]
  /\ last' = [op |-> "return", path |-> "", threw |-> FALSE]
  /\ UNCHANGED <<tokens, prevText, toSplit, selection, text, input>>

NextScan == ScanChar \/ ScanNextPattern \/ ScanReturn

SpecScan == InitScan /\ [][NextScan]_vars


(***************************************************************************)
(* Completing a delimiter pair by typing.  SpecPair starts from runs whose  *)
(* text is a stretch of "abc" with one delimiter character in it, the input *)
(* and the snapshot in step with the runs, and types one more delimiter     *)
(* character somewhere: input is the run list before, output the text the   *)
(* input reported.                                                          *)
(***************************************************************************)
MaxPairRuns == 2

Delimiters == {"*", "_"}

\* Stretches of "abc" with one delimiter character put in.
PairTexts ==
  {insertAt(slice(<<"a", "b", "c">>, 0, len), k, <<d>>) :
     len \in 1..MaxRuns, k \in 0..MaxRuns, d \in Delimiters}

PairLists ==
  UNION { UNION { { [i \in 1..n |-> Tok(cut[i], anns[i])] :
                    anns \in {a \in [1..n -> RunAnnotations] :
                                \A i \in 1..(n - 1) : a[i] # a[i + 1]} } :
                  cut \in Cuts(txt, n) } :
          txt \in PairTexts, n \in 1..MaxPairRuns }

InitPair ==
  /\ tokens \in PairLists
  /\ prevText = Join(tokens)
  /\ text = Join(tokens)
  /\ toSplit = NoPending
  /\ selection = [start |-> 0, end |-> 0]
  /\ last = [op |-> "init", path |-> "", threw |-> FALSE]
  /\ input = tokens
  /\ output = <<>>

\* The delimiter character d is typed at offset q.
TypeDelimiter(q, d) ==
  /\ last.op = "init"
  /\ OnChangeText(insertAt(text, q, <<d>>))
  /\ output' = insertAt(text, q, <<d>>)
  /\ UNCHANGED input

NextPair ==
  \E q \in 0..(MaxRuns + 1) : \E d \in Delimiters :
    q <= Len(text) /\ TypeDelimiter(q, d)

SpecPair == InitPair /\ [][NextPair]_vars

(***************************************************************************)
(* insertToken on its own.  SpecInsert draws a run list, an index from 0 to *)
(* the length of its text, the annotations to reconcile and the text to     *)
(* insert; input holds the three arguments, output what insertToken         *)
(* returned.                                                                *)
(***************************************************************************)
\* The annotations toggleStyle can have armed: one style, two styles, and a
\* style armed and cancelled again.
InsertAnnotations ==
  { Only("bold"), Only("italic"), [k \in {"bold", "italic"} |-> "T"],
    [k \in {"bold"} |-> "F"] }

InitInsert ==
  /\ tokens \in RunLists \cup {<<EmptyToken>>}
  /\ prevText = Join(tokens)
  /\ text = Join(tokens)
  /\ toSplit = NoPending
  /\ selection = [start |-> 0, end |-> 0]
  /\ last = [op |-> "init", path |-> "", threw |-> FALSE]
  /\ \E index \in 0..MaxRuns : \E annotations \in InsertAnnotations :
       \E txt \in AddedStrings :
         /\ index <= Len(Join(tokens))
         /\ input = [index |-> index, annotations |-> annotations, text |-> txt]
  /\ output = <<>>

InsertToken ==
  /\ last.op = "init"
  /\ output' = insertToken(tokens, input.index, input.annotations, input.text)
  /\ last' = [op |-> "insertToken", path |-> "", threw |-> output'.threw]
  /\ UNCHANGED <<tokens, prevText, toSplit, selection, text, input>>

NextInsert == InsertToken

SpecInsert == InitInsert /\ [][NextInsert]_vars

(***************************************************************************)
(* The two locate loops of splitTokens.  SpecLocate draws a run list        *)
(* without empty runs and offsets start < end within its text (input), and  *)
(* runs the start loop and the end loop: output holds, for each, the index  *)
(* of the run found and the offset left within it.                          *)
(***************************************************************************)
InitLocate ==
  /\ tokens \in RunLists
  /\ prevText = Join(tokens)
  /\ text = Join(tokens)
  /\ toSplit = NoPending
  /\ selection = [start |-> 0, end |-> 0]
  /\ last = [op |-> "init", path |-> "", threw |-> FALSE]
  /\ \E start \in 0..MaxRuns : \E end \in 0..MaxRuns :
       /\ start < end
       /\ end <= Len(Join(tokens))
       /\ input = [start |-> start, end |-> end]
  /\ output = <<>>

Locate ==
  /\ last.op = "init"
  /\ output' = [start |-> locateStart(tokens, input.start),
                end |-> locateEnd(tokens, input.end)]
  /\ last' = [op |-> "locate", path |-> "", threw |-> FALSE]
  /\ UNCHANGED <<tokens, prevText, toSplit, selection, text, input>>

NextLocate == Locate

SpecLocate == InitLocate /\ [][NextLocate]_vars

(***************************************************************************)
(* diffStrings on any two strings.  SpecDiffAny draws the previous and the  *)
(* next text freely (input) and takes their diff (output).                  *)
(***************************************************************************)
InitDiffAny ==
  /\ tokens = <<EmptyToken>>
  /\ prevText = <<>>
  /\ toSplit = NoPending
  /\ selection = [start |-> 0, end |-> 0]
  /\ text = <<>>
  /\ last = [op |-> "init", path |-> "", threw |-> FALSE]
  /\ \E prev \in Strings(WordChars, MaxPrev) :
       \E next \in Strings(WordChars, MaxPrev) :
         input = [prev |-> prev, next |-> next]
  /\ output = <<>>

SpecDiffAny == InitDiffAny /\ [][NextDiff]_vars

(***************************************************************************)
(* parseTokens with the default table.  SpecSerialize holds any run list    *)
(* over bold and italic and reads it back as markup: output is the string   *)
(* getRichTextString returned.                                              *)
(***************************************************************************)
InitSerialize ==
  /\ tokens \in RunLists
  /\ prevText = Join(tokens)
  /\ text = Join(tokens)
  /\ toSplit = NoPending
  /\ selection = [start |-> 0, end |-> 0]
  /\ last = [op |-> "init", path |-> "", threw |-> FALSE]
  /\ input = <<>>
  /\ output = <<>>

Serialize ==
  /\ last.op = "init"
  /\ output' = getRichTextString(tokens)
  /\ last' = [op |-> "getRichTextString", path |-> "", threw |-> FALSE]
  /\ UNCHANGED <<tokens, prevText, toSplit, selection, text, input>>

NextSerialize == Serialize

SpecSerialize == InitSerialize /\ [][NextSerialize]_vars

(***************************************************************************)
(* The claims.                                                             *)
(***************************************************************************)

\* C1: after an onChangeText event that reports the text with one contiguous
\* range replaced (no delimiter pair completed), the concatenation of the
\* run texts equals the reported flat text.
C1_Concatenation ==
  [][\A nextText \in Edits(text) :
       (OnChangeText(nextText) /\ last'.path # "match")
         => Join(tokens') = nextText]_vars

\* C2: after setValue, toggleStyle or onChangeText has returned, no two
\* adjacent runs carry the same annotation mapping.
C2_NoAdjacentDuplicate ==
  (last.op \in {"setValue", "toggleStyle", "onChangeText"} /\ ~last.threw)
    => \A i \in 1..(Len(tokens) - 1) :
         tokens[i].annotations # tokens[i + 1].annotations

\* C3 (as stated): after any public operation has returned, initialization
\* included, no run of the run list has empty text.
C3_NoEmptyRun ==
  \A i \in 1..Len(tokens) : Len(tokens[i].text) > 0

\* C3 (amended): a run has empty text only when it is the only run of the
\* list, which is the case at initialization and once all text is deleted.
C3_NoEmptyRunUnlessSole ==
  \A i \in 1..Len(tokens) : Len(tokens[i].text) = 0 => Len(tokens) = 1

\* C3 witness: onChangeText has deleted every character, the filter has
\* left no run and the list is the single empty run again.
C3_Witness ==
  /\ last = [op |-> "onChangeText", path |-> "default", threw |-> FALSE]
  /\ tokens = <<EmptyToken>>
  /\ prevText = <<>>

RECURSIVE charStyles(_, _)
charStyles(toks, style) ==
  IF toks = <<>> THEN <<>>
  ELSE [i \in 1..Len(Head(toks).text) |-> Truthy(Get(Head(toks).annotations, style))]
         \o charStyles(Tail(toks), style)

\* C5 (as stated): for every run list and every non-collapsed selection,
\* toggleStyle(S) applied twice over the selection leaves the text unchanged
\* and returns every character of the span to the truthiness of S it had.
C5_ToggleTwiceRestores ==
  (output = MaxToggles) =>
     /\ ~last.threw
     /\ Join(tokens) = Join(input.tokens)
     /\ \A p \in (selection.start + 1)..selection.end :
          charStyles(tokens, input.style)[p] = charStyles(input.tokens, input.style)[p]

\* All characters of the selection have the same truthiness of style.
uniform(toks, sel, style) ==
  \A p, q \in (sel.start + 1)..sel.end :
    charStyles(toks, style)[p] = charStyles(toks, style)[q]

\* C5 restricted to selections whose characters all have the same truthiness
\* of S: toggleStyle(S) applied twice over the selection leaves the text
\* unchanged and returns every character of the span to that truthiness.
C5_ToggleTwiceRestoresUniform ==
  (output = MaxToggles /\ uniform(input.tokens, selection, input.style)) =>
     /\ ~last.threw
     /\ Join(tokens) = Join(input.tokens)
     /\ \A p \in (selection.start + 1)..selection.end :
          charStyles(tokens, input.style)[p] = charStyles(input.tokens, input.style)[p]

\* C6: for a markup string of delimiter-free segments wrapped in balanced,
\* non-nested default delimiter pairs, serializing the runs parsed from the
\* string gives the string back.
C6_RoundTrip ==
  (last.op = "getRichTextString") => output = input

\* C7: for each default inline style, setValue(opening + X + closing + Y) with
\* delimiter-free X and Y yields exactly the run X with that style true
\* followed by the run Y with no style.
C7_DelimitedThenPlain ==
  \A p \in InlinePatterns : \A X, Y \in {<<"a">>, <<"b">>} :
    (last.op = "setValue" /\ input = p.opening \o X \o p.closing \o Y)
      => tokens = <<Tok(X, Only(p.style)), Tok(Y, EmptyAnn)>>

\* The styles with a truthy value on every character of the runs' text.
RECURSIVE charTruthy(_)
charTruthy(toks) ==
  IF toks = <<>> THEN <<>>
  ELSE [i \in 1..Len(Head(toks).text) |->
          {k \in DOMAIN Head(toks).annotations : Truthy(Head(toks).annotations[k])}]
         \o charTruthy(Tail(toks))

\* The styles of the run the cursor offset p is in: the run of the character
\* before p, the first run at offset 0.
stylesAt(toks, p) ==
  IF Len(Join(toks)) = 0 THEN {} ELSE charTruthy(toks)[Max(p, 1)]

\* A style S has just been armed on its own by toggleStyle at the collapsed
\* selection p, and nextText is the consistent text with x inserted at p.
armedInsertion(p, S, x, nextText) ==
  /\ last = [op |-> "toggleStyle", path |-> "collapsed", threw |-> FALSE]
  /\ selection = [start |-> p, end |-> p]
  /\ toSplit.annotations = Only(S)
  /\ prevText = text
  /\ Join(tokens) = text
  /\ nextText = slice(text, 0, p) \o x \o sliceFrom(text, p)
  /\ diffStrings(text, nextText) = [start |-> p, removed |-> <<>>, added |-> x]
  /\ ~firstMatch(nextText, PATTERNS, 1).found

\* C8: when toggleStyle(S) is called with a collapsed selection at p and the
\* next onChangeText is an insertion at p, the inserted text has S set to the
\* negation of its value on the run at p, and the text that was there keeps
\* its annotations.
C8_PendingInsertion ==
  [][\A p \in 0..Len(text) : \A S \in ToggleStyles :
     \A x \in Strings(TypeChars, MaxTyped) \ {<<>>} :
       \A nextText \in {slice(text, 0, p) \o x \o sliceFrom(text, p)} :
         (armedInsertion(p, S, x, nextText) /\ OnChangeText(nextText))
           => /\ ~last'.threw
              /\ Join(tokens') = nextText
              /\ \A i \in 1..Len(x) :
                   (S \in charTruthy(tokens')[p + i]) = (S \notin stylesAt(tokens, p))
              /\ \A i \in 1..Len(text) :
                   charTruthy(tokens')[IF i <= p THEN i ELSE i + Len(x)]
                     = charTruthy(tokens)[i]]_vars

\* C9: a pending style lives at most one edit cycle: once an onChangeText
\* has returned, whether it consumed the pending style or not, no style is
\* armed any more.
C9_PendingOneEditCycle ==
  (last.op = "onChangeText" /\ ~last.threw) => ~someTruthy(toSplit.annotations)

\* The outcome of onChangeText(nextText) after toggleStyle(S) has been called
\* twice with the collapsed selection of the current state.
afterTwoToggles(S, nextText) ==
  LET o1 == toggleStyle(tokens, prevText, toSplit, selection, S)
      o2 == toggleStyle(tokens, prevText, o1.toSplit, selection, S)
  IN handleOnChangeText(tokens, prevText, o2.toSplit, nextText)

\* Nothing is armed, the selection is collapsed at p and nextText is the
\* consistent text with x inserted at p.
plainInsertion(p, x, nextText) ==
  /\ Running
  /\ selection = [start |-> p, end |-> p]
  /\ ~someTruthy(toSplit.annotations)
  /\ prevText = text
  /\ Join(tokens) = text
  /\ nextText = slice(text, 0, p) \o x \o sliceFrom(text, p)
  /\ diffStrings(text, nextText) = [start |-> p, removed |-> <<>>, added |-> x]
  /\ ~firstMatch(nextText, PATTERNS, 1).found

\* C10: after toggleStyle(S) has been called twice with the same collapsed
\* selection, an insertion at that offset is handled as a plain edit and the
\* inserted text takes the annotations of the run it is typed into.
C10_DoubleToggleCancels ==
  \A p \in 0..Len(text) : \A S \in ToggleStyles :
    \A x \in Strings(TypeChars, MaxTyped) \ {<<>>} :
      \A nextText \in {slice(text, 0, p) \o x \o sliceFrom(text, p)} :
        plainInsertion(p, x, nextText) =>
          \A o \in {afterTwoToggles(S, nextText)} :
            /\ o.path = "default"
            /\ ~o.threw
            /\ Join(o.tokens) = nextText
            /\ \A i \in 1..Len(x) :
                 charTruthy(o.tokens)[p + i] = stylesAt(tokens, p)

\* C10 for the insertion of a single character.
C10_DoubleToggleCancelsOneChar ==
  \A p \in 0..Len(text) : \A S \in ToggleStyles :
    \A x \in Strings(TypeChars, 1) \ {<<>>} :
      \A nextText \in {slice(text, 0, p) \o x \o sliceFrom(text, p)} :
        plainInsertion(p, x, nextText) =>
          \A o \in {afterTwoToggles(S, nextText)} :
            /\ o.path = "default"
            /\ ~o.threw
            /\ Join(o.tokens) = nextText
            /\ \A i \in 1..Len(x) :
                 charTruthy(o.tokens)[p + i] = stylesAt(tokens, p)

\* toggleStyle(S) is about to be called over the non-collapsed selection of a
\* consistent state in which S is not armed.
rangeToggle(S) ==
  /\ Running
  /\ selection.start < selection.end
  /\ selection.end <= Len(text)
  /\ prevText = text
  /\ Join(tokens) = text
  /\ ~Truthy(Get(toSplit.annotations, S))

\* C11: toggleStyle(S) over a non-collapsed selection [s,e] applies the style
\* change to the selection (S false on the span when every selected
\* character had it, true otherwise, text unchanged) and arms the pending
\* state at anchor e with S true.
C11_RangeToggleArms ==
  [][\A S \in ToggleStyles :
       (rangeToggle(S) /\ ToggleStyle(S))
         => /\ ~last'.threw
            /\ Join(tokens') = Join(tokens)
            /\ \A p \in (selection.start + 1)..selection.end :
                 (S \in charTruthy(tokens')[p])
                   = ~(\A q \in (selection.start + 1)..selection.end :
                         S \in charTruthy(tokens)[q])
            /\ toSplit'.start = selection.end
            /\ toSplit'.end = selection.end
            /\ Truthy(Get(toSplit'.annotations, S))]_vars

C14_DiffOfInsertion ==
  (last.op = "diffStrings") =>
     /\ output.removed = <<>>
     /\ output.added = input.x
     /\ output.start = input.p

\* C14 (amended): diffStrings reports removed = "", an added string of the
\* length of x at a start offset not before p, and inserting the added
\* string at the start offset into prev gives next; start = p and
\* added = x when p is the end of prev or x begins with a character other
\* than the one prev has at p.
C14_DiffOfInsertionPrefix ==
  (last.op = "diffStrings") =>
     /\ output.removed = <<>>
     /\ Len(output.added) = Len(input.x)
     /\ output.start >= input.p
     /\ output.start <= Len(input.prev)
     /\ insertAt(input.prev, output.start, output.added) = input.next
     /\ (input.p = Len(input.prev) \/ input.prev[input.p + 1] # input.x[1]) =>
          (output.start = input.p /\ output.added = input.x)

\* C14 witness: "ba" inserted at offset 1 of "ab" is reported as "ab"
\* inserted at offset 2.
C14_Witness ==
  /\ last.op = "diffStrings"
  /\ input = [prev |-> <<"a", "b">>, p |-> 1, x |-> <<"b", "a">>,
              next |-> <<"a", "b", "a", "b">>]
  /\ output = [start |-> 2, removed |-> <<>>, added |-> <<"a", "b">>]

\* What the event would leave behind had the handler read the state written
\* last instead of the state of the last render.
onLatest(o) ==
  /\ last'.threw = o.threw
  /\ ~o.threw => /\ tokens' = values(o.tokens)
                 /\ prevText' = o.prevText
                 /\ toSplit' = o.toSplit

\* C15: an event handled before the state written by the event before it
\* has been rendered is applied on top of that state: it leaves the runs,
\* the previous-text snapshot and the pending state that the same event
\* leaves when handled after the render, and the snapshot is the text of
\* the runs.
C15_NoLostUpdate ==
  [][/\ \A nextText \in Edits(text) :
          HandleChangeText(nextText) =>
             /\ onLatest(handleOnChangeText(tokens, prevText, toSplit, nextText))
             /\ ~last'.threw => prevText' = Join(tokens')
     /\ \A style \in RenderStyles :
          HandleToggleStyle(style) =>
             onLatest(toggleStyle(tokens, prevText, toSplit, selection, style))]_vars

\* C16: the runs of a list returned by getTokenizedString keep the text and
\* the annotations they had when the list was returned.
C16_StableSnapshot ==
  (output # <<>>) => values(output.list) = output.returned

\* C17: toggleStyle called while the stored selection reaches beyond the end
\* of the text raises no error and leaves a run list whose text is the
\* text of the input, without empty runs unless it is the single empty run.
C17_StaleSelectionToggle ==
  [][\A S \in ToggleStyles :
        (Running /\ selection.end > Len(text) /\ ToggleStyle(S)) =>
           /\ ~last'.threw
           /\ Join(tokens') = text
           /\ Len(tokens') > 0
           /\ \A i \in 1..Len(tokens') :
                Len(tokens'[i].text) > 0 \/ Len(tokens') = 1]_vars

\* A pattern with a closing literal and no opening literal.
closingOnly(pattern) == pattern.opening = <<>> /\ pattern.closing # <<>>

\* C18: a pattern table holding a pattern with a closing literal and no
\* opening literal is rejected at registration: no setValue and no
\* getRichTextString is served with such a table.
C18_MalformedTableRejected ==
  (last.op \in {"setValue", "getRichTextString"} /\ ~last.threw) =>
     \A i \in 1..Len(input.patterns) : ~closingOnly(input.patterns[i])

RECURSIVE wrapBoth(_, _, _, _)
\* The fold of C19: opening + text + closing for every pattern whose style
\* is truthy, a pattern with neither literal skipped.
wrapBoth(children, annotations, patterns, i) ==
  IF i > Len(patterns) THEN children
  ELSE IF /\ Truthy(Get(annotations, patterns[i].style))
          /\ ~(patterns[i].opening = <<>> /\ patterns[i].closing = <<>>)
       THEN wrapBoth(patterns[i].opening \o children \o patterns[i].closing,
                     annotations, patterns, i + 1)
       ELSE wrapBoth(children, annotations, patterns, i + 1)

RECURSIVE serialized(_, _)
serialized(toks, patterns) ==
  IF toks = <<>> THEN <<>>
  ELSE wrapBoth(Head(toks).text, Head(toks).annotations, patterns, 1)
       \o serialized(Tail(toks), patterns)

\* C19: getRichTextString returns the runs in order, each wrapped as
\* opening + text + closing for every pattern whose style is truthy on the
\* run; a truthy style whose pattern has no opening and no closing literal
\* adds no characters.
C19_WrapOpeningClosing ==
  (last.op = "getRichTextString") => output = serialized(tokens, input.patterns)

\* The offset at which run i of the run list begins.
runStart(i) == Len(Join(SubSeq(tokens, 1, i - 1)))

\* Whether the cursor lies in run i, its two ends included.
holdsCursor(i) ==
  /\ runStart(i) <= selection.start
  /\ selection.start <= runStart(i) + Len(tokens[i].text)

\* C20: for every cursor offset from 0 to the length of the text,
\* getActiveStyles raises no error and returns exactly the annotation keys
\* with a truthy value on the run containing the cursor; at the boundary of
\* two runs that is the run ending at the cursor.
C20_ActiveStyles ==
  (last.op = "getActiveStyles") =>
     /\ ~output.threw
     /\ \E i \in 1..Len(tokens) :
          /\ holdsCursor(i)
          /\ \A j \in 1..(i - 1) : ~holdsCursor(j)
          /\ output.styles = {key \in DOMAIN tokens[i].annotations :
                                 Truthy(tokens[i].annotations[key])}

\* C20 witness: the cursor is between a bold and an italic run and the
\* call returned the style of the bold run.
C20_Witness ==
  /\ last.op = "getActiveStyles"
  /\ tokens = <<Tok(<<"a">>, Only("bold")), Tok(<<"b">>, Only("italic"))>>
  /\ selection.start = 1
  /\ output = [threw |-> FALSE, styles |-> {"bold"}]

\* C21: for every run list and every diff with a start offset inside the
\* text, the diff with nothing removed and nothing added included,
\* updateTokens returns a run list: it neither raises an error nor ends
\* without a result.
C21_UpdateTokensTotal ==
  (last.op = "updateTokens") => (~output.threw /\ ~output.undef)

\* The characters of the runs' text, each with the annotations of its run.
RECURSIVE styledChars(_)
styledChars(toks) ==
  IF toks = <<>> THEN <<>>
  ELSE [i \in 1..Len(Head(toks).text) |->
          [char |-> Head(toks).text[i], annotations |-> Head(toks).annotations]]
         \o styledChars(Tail(toks))

\* The characters of txt, each with the given annotations.
styledAs(txt, annotations) ==
  [i \in 1..Len(txt) |-> [char |-> txt[i], annotations |-> annotations]]

\* The diff is a pure insertion at the start of a run that is not the first
\* run, or at the end of the text.
boundaryInsertion ==
  /\ input.removed = <<>>
  /\ input.added # <<>>
  /\ \/ input.start = Len(text)
     \/ \E i \in 2..Len(tokens) : runStart(i) = input.start

\* The annotations of the run before the offset p: the run of the character
\* before p, the last run when there is no character.
annotationsBefore(p) ==
  IF p = 0 THEN tokens[Len(tokens)].annotations
  ELSE styledChars(tokens)[p].annotations

\* C22: a pure insertion at the start of a run that is not the first run, or
\* at the end of the text, is appended to the run before it: the inserted
\* text has that run's annotations and every other character is unchanged.
C22_BoundaryInsertion ==
  (last.op = "updateTokens" /\ boundaryInsertion) =>
     /\ ~output.threw
     /\ styledChars(output.result) =
          SubSeq(styledChars(tokens), 1, input.start)
            \o styledAs(input.added, annotationsBefore(input.start))
            \o SubSeq(styledChars(tokens), input.start + 1, Len(text))

\* C23: a pure insertion into a list of two or more runs deletes nothing:
\* updateTokens returns a run list in which every character of the previous
\* text is found, in order and with the annotations it had.
C23_InsertionDeletesNothing ==
  (last.op = "updateTokens" /\ input.removed = <<>> /\ input.added # <<>>
     /\ Len(tokens) >= 2) =>
     /\ ~output.threw
     /\ SelectSeq(styledChars(output.result), LAMBDA c : c.char # "x")
          = styledChars(tokens)

\* The index of the run that holds the p-th character of the text.
runOf(p) ==
  CHOOSE i \in 1..Len(tokens) :
    runStart(i) < p /\ p <= runStart(i) + Len(tokens[i].text)

\* The diff removes characters of two or more runs.
crossRunRemoval ==
  /\ input.removed # <<>>
  /\ runOf(input.start + 1) # runOf(input.start + Len(input.removed))

\* What C24 expects of the diff: the characters before and after the removed
\* range as they were, the added text between them with the annotations of
\* the first run of the range.
spliced ==
  SubSeq(styledChars(tokens), 1, input.start)
    \o styledAs(input.added, tokens[runOf(input.start + 1)].annotations)
    \o SubSeq(styledChars(tokens), input.start + Len(input.removed) + 1, Len(text))

\* C24: for a deletion or a replacement whose removed range spans two or
\* more runs, updateTokens keeps the characters before and after the range
\* with their annotations, deletes the rest, and places the added text after
\* what is left of the first run, whatever the lengths of added and removed.
C24_CrossRunRemoval ==
  (last.op = "updateTokens" /\ crossRunRemoval) =>
     (~output.threw /\ styledChars(output.result) = spliced)

\* The runs of a list that hold a character of the selection.
spanRuns(toks, sel) ==
  {i \in 1..Len(toks) :
     \E p \in (sel.start + 1)..sel.end :
        /\ Len(Join(SubSeq(toks, 1, i - 1))) < p
        /\ p <= Len(Join(SubSeq(toks, 1, i)))}

\* What C25 expects of a run list after toggleStyle(style) over sel on the
\* run list before: the span has style false when every run of the span had
\* it true and true otherwise, and the characters around it keep theirs.
toggledSpan(before, after, sel, style) ==
  LET allSet == \A i \in spanRuns(before, sel) :
                  Truthy(Get(before[i].annotations, style))
  IN /\ Join(after) = Join(before)
     /\ \A p \in 1..Len(Join(before)) :
          charStyles(after, style)[p] =
            IF sel.start < p /\ p <= sel.end THEN ~allSet
            ELSE charStyles(before, style)[p]

\* C25: toggleStyle(S) over a selection spanning several runs sets S to false
\* on the whole span when every run of the span has S true and to true on
\* the whole span otherwise; the rest of the first and of the last run keep
\* their value of S.
C25_SpanToggle ==
  (output = 1 /\ Cardinality(spanRuns(input.tokens, selection)) >= 2) =>
     (~last.threw /\ toggledSpan(input.tokens, tokens, selection, input.style))

\* What C26 expects of a run list after toggleStyle(style) over sel on the
\* run list before: the same text, and on every character the same truthy
\* styles, the toggled style inside the selection left aside.
toggleFrame(before, after, sel, style) ==
  /\ Join(after) = Join(before)
  /\ \A p \in 1..Len(Join(before)) :
       IF sel.start < p /\ p <= sel.end
       THEN charTruthy(after)[p] \ {style} = charTruthy(before)[p] \ {style}
       ELSE charTruthy(after)[p] = charTruthy(before)[p]

\* C26: toggleStyle over a non-collapsed selection leaves the text unchanged,
\* and leaves unchanged the styles of every character outside the selection
\* and every style other than the toggled one inside it.
C26_ToggleFrame ==
  (output = 1) =>
     (~last.threw /\ toggleFrame(input.tokens, tokens, selection, input.style))

\* C27: when the run at the cursor p has a style A true and another style B
\* has been armed at p, the text inserted at p ends up in a run with both A
\* and B true, and the text before it stays in a run with A and without B.
C27_PendingOnStyledRun ==
  [][\A p \in 1..Len(text) : \A B \in ToggleStyles :
     \A x \in Strings(TypeChars, MaxTyped) \ {<<>>} :
       \A nextText \in {slice(text, 0, p) \o x \o sliceFrom(text, p)} :
         (/\ armedInsertion(p, B, x, nextText)
          /\ stylesAt(tokens, p) \ {B} # {}
          /\ B \notin stylesAt(tokens, p)
          /\ OnChangeText(nextText))
           => /\ ~last'.threw
              /\ Join(tokens') = nextText
              /\ \A i \in 1..Len(x) :
                   charTruthy(tokens')[p + i] = stylesAt(tokens, p) \cup {B}
              /\ charTruthy(tokens')[p] = stylesAt(tokens, p)]_vars

\* A style is armed at the anchor where the diff of nextText against the
\* text starts, the diff removes characters and nextText holds no markup.
armedRemoval(nextText) ==
  /\ Running
  /\ someTruthy(toSplit.annotations)
  /\ toSplit.start = toSplit.end
  /\ prevText = text
  /\ Join(tokens) = text
  /\ diffStrings(text, nextText).start = toSplit.start
  /\ diffStrings(text, nextText).removed # <<>>
  /\ ~firstMatch(nextText, PATTERNS, 1).found

\* C28: when a style is armed at an anchor and the next onChangeText is a
\* deletion or a replacement whose diff starts at the anchor, the removed
\* characters are removed from the runs: the text of the runs is the new
\* text.
C28_PendingRemoval ==
  [][\A nextText \in Edits(text) :
       (armedRemoval(nextText) /\ OnChangeText(nextText))
         => (~last'.threw /\ Join(tokens') = nextText)]_vars

RECURSIVE mergedEqual(_, _)
\* The merge pass of C29: a run is appended to the run before it exactly when
\* the two annotation mappings are the same mapping and have a key.
mergedEqual(acc, rest) ==
  IF rest = <<>> THEN acc
  ELSE IF /\ acc # <<>>
          /\ acc[Len(acc)].annotations = Head(rest).annotations
          /\ DOMAIN Head(rest).annotations # {}
       THEN mergedEqual([acc EXCEPT ![Len(acc)].text = @ \o Head(rest).text],
                        Tail(rest))
       ELSE mergedEqual(Append(acc, Head(rest)), Tail(rest))

\* C29: concatTokens merges two adjacent runs exactly when their annotation
\* mappings have the same keys with the same values and the key set is not
\* empty; a run with keys the run before it lacks is not merged into it.
C29_MergeOnEqualMappings ==
  (last.op = "concatTokens") => output = mergedEqual(<<>>, tokens)

\* C30: concileAnnotations changes only keys of the new mapping: for a
\* truthy new value the result is the logical negation of the previous
\* value of the key, for a falsy one it is the new value; and applying a
\* new mapping whose values are all truthy twice returns every key to the
\* truthiness it had.
C30_Concile ==
  /\ (Len(output) >= 1) =>
       /\ DOMAIN output[1] =
            (DOMAIN input.prevAnnotations) \cup (DOMAIN input.newAnnotations)
       /\ \A key \in DOMAIN output[1] :
            IF key \notin DOMAIN input.newAnnotations
            THEN output[1][key] = input.prevAnnotations[key]
            ELSE IF Truthy(input.newAnnotations[key])
            THEN /\ output[1][key] \in {"T", "F"}
                 /\ Truthy(output[1][key])
                      = ~Truthy(Get(input.prevAnnotations, key))
            ELSE output[1][key] = input.newAnnotations[key]
  /\ (/\ Len(output) = 2
      /\ \A key \in DOMAIN input.newAnnotations :
           Truthy(input.newAnnotations[key])) =>
       \A key \in DOMAIN output[2] :
          Truthy(output[2][key]) = Truthy(Get(input.prevAnnotations, key))

\* C30 witness: bold, a truthy string, and italic, null, have been
\* reconciled twice with { bold: true, italic: true }.
C30_Witness ==
  /\ input = [prevAnnotations |-> [k \in {"bold", "italic"} |->
                                     IF k = "bold" THEN "S" ELSE "N"],
              newAnnotations |-> [k \in {"bold", "italic"} |-> "T"]]
  /\ output = << [k \in {"bold", "italic"} |-> IF k = "bold" THEN "F" ELSE "T"],
                 [k \in {"bold", "italic"} |-> IF k = "bold" THEN "T" ELSE "F"] >>

RECURSIVE stripPairs(_, _, _)
\* str without the literals of the pairs of the pattern found from index from
\* on: an opening literal and the first closing literal after it.
stripPairs(str, pattern, from) ==
  LET o == indexOf(str, pattern.opening, from)
      c == IF o = -1 THEN -1
           ELSE indexOf(str, pattern.closing, o + Len(pattern.opening))
  IN IF ~bothDefined(pattern) \/ o = -1 \/ c = -1 THEN str
     ELSE stripPairs(slice(str, 0, o)
                       \o slice(str, o + Len(pattern.opening), c)
                       \o sliceFrom(str, c + Len(pattern.closing)),
                     pattern, c - Len(pattern.opening))

RECURSIVE stripped(_, _, _)
\* str without the literals of the matched pairs of the patterns i, i + 1, ...
stripped(str, patterns, i) ==
  IF i > Len(patterns) THEN str
  ELSE stripped(stripPairs(str, patterns[i], 0), patterns, i + 1)

\* C31: for every input string, balanced or not, parseRichTextString returns,
\* the runs it returns concatenate to the plain text it returns, and the
\* plain text is the input without the delimiter characters of the matched
\* pairs, every other character kept in its place.
C31_PlainText ==
  /\ ~output.threw
  /\ output.returned =>
       /\ Join(output.tokens) = output.copyOfString
       /\ output.copyOfString = stripped(input.richTextString, input.patterns, 1)

\* Whether the pass of the inner loop that is next is a match.
matchNext ==
  /\ ScanRunning
  /\ output.i <= Len(input.patterns)
  /\ output.chars # <<>>
  /\ matched(input.patterns[output.i], Head(output.chars), output.evenCount)

\* Whether the step moves a loop on: the function ends, the outer loop is at
\* a later pattern, or the inner loop has fewer characters left to visit.
movesOn ==
  \/ output'.returned
  \/ output'.threw
  \/ output'.i > output.i
  \/ (output'.i = output.i /\ Len(output'.chars) < Len(output.chars))

\* Whether the step leaves the working copy strictly shorter.
shortens ==
  ~output'.threw /\ Len(output'.copyOfString) < Len(output.copyOfString)

\* C32: parseRichTextString terminates for every input string and pattern
\* table, since every pass moves a loop on (the outer loop to the next
\* pattern, or the inner loop to the next character), and every match leaves
\* the working copy strictly shorter than it was.
C32_MatchShortens ==
  [][movesOn /\ (matchNext => shortens)]_vars

\* Whether str holds a balanced pair of a default inline pattern: the
\* opening literal, one or more characters other than the delimiter, and the
\* closing literal.
hasPair(str) ==
  \E p \in InlinePatterns : \E o \in 0..Len(str) : \E c \in 0..Len(str) :
    /\ OccursAt(str, p.opening, o)
    /\ c > o + Len(p.opening)
    /\ OccursAt(str, p.closing, c)
    /\ \A k \in (o + Len(p.opening) + 1)..c : <<str[k]>> # p.closing

\* The path the priority of the three checks gives for the new text.
pathFor(nextText) ==
  IF hasPair(nextText) THEN "match"
  ELSE IF /\ someTruthy(toSplit.annotations)
          /\ toSplit.start = toSplit.end
          /\ diffStrings(prevText, nextText).start = toSplit.start
  THEN "pending"
  ELSE "default"

\* C33: each onChangeText takes the markup-match path if the new text holds
\* a balanced delimiter pair, else the pending-style path if a style is armed
\* at the start of the diff, else the plain edit; and when the handler is
\* done the previous-text snapshot is the concatenation of the new runs.
C33_OnePathThenSnapshot ==
  [][\A nextText \in Edits(text) :
       (last'.op = "onChangeText" /\ OnChangeText(nextText))
         => /\ last'.path = pathFor(nextText)
            /\ ~last'.threw
            /\ prevText' = Join(tokens')]_vars

\* Whether str has the opening literal of pattern p at o and its closing
\* literal at c, with one or more characters other than the delimiter
\* between them.
pairAt(str, p, o, c) ==
  /\ OccursAt(str, p.opening, o)
  /\ c > o + Len(p.opening)
  /\ OccursAt(str, p.closing, c)
  /\ \A k \in (o + Len(p.opening) + 1)..c : <<str[k]>> # p.closing

\* C34: when typing a delimiter character completes a pair opening + X +
\* closing, then after that onChangeText the text of the runs is the new
\* text without the two delimiter characters, all else as it was, and X has
\* the style of the pattern true.
C34_PairCompleted ==
  \A p \in InlinePatterns : \A o \in 0..Len(output) : \A c \in 0..Len(output) :
    (last.op = "onChangeText" /\ pairAt(output, p, o, c))
      => /\ ~last.threw
         /\ Join(tokens) = slice(output, 0, o)
                             \o slice(output, o + Len(p.opening), c)
                             \o sliceFrom(output, c + Len(p.closing))
         /\ \A k \in (o + 1)..(c - Len(p.opening)) :
              p.style \in charTruthy(tokens)[k]

\* C35: after setValue, with a string or with a run list, the previous-text
\* snapshot the next diff is taken against is the concatenation of the new
\* runs.
C35_SnapshotAfterSetValue ==
  (last.op = "setValue" /\ ~last.threw) => prevText = Join(tokens)

\* The annotations of the run that holds the index p: the run of the
\* character before p, the first run at index 0.
annotationsAt(p) ==
  IF p = 0 THEN tokens[1].annotations ELSE styledChars(tokens)[p].annotations

\* C36: insertToken(runs, index, annotations, text) with index from 0 to the
\* length of the text returns runs that read prev[0..index) + text +
\* prev[index..), in which the inserted text carries the annotations of the
\* run holding index reconciled with the given ones, and every character
\* that was there keeps its annotations.
C36_InsertToken ==
  (last.op = "insertToken") =>
    /\ ~output.threw
    /\ styledChars(output.result) =
         slice(styledChars(tokens), 0, input.index)
           \o styledAs(input.text,
                       concileAnnotations(annotationsAt(input.index),
                                          input.annotations))
           \o sliceFrom(styledChars(tokens), input.index)

\* C36 witness: "x" has been inserted with { bold: true } at index 1,
\* between the run a and the italic run b.
C36_Witness ==
  /\ last.op = "insertToken"
  /\ tokens = <<Tok(<<"a">>, EmptyAnn), Tok(<<"b">>, Only("italic"))>>
  /\ input = [index |-> 1, annotations |-> Only("bold"), text |-> <<"x">>]
  /\ output.result = <<Tok(<<"a">>, EmptyAnn), Tok(<<"x">>, Only("bold")),
                       Tok(<<"b">>, Only("italic"))>>

\* C37: for runs without empty runs and offsets 0 <= s < e <= length, the
\* start locate finds the run whose characters begin at or before s and end
\* after it (the following run when s is on a boundary), the end locate the
\* run whose characters begin before e and end at or after it (the preceding
\* run when e is on a boundary); both runs exist and the start run is not
\* after the end run.
C37_LocateOrder ==
  (last.op = "locate") =>
    LET s == output.start.idx + 1
        e == output.end.idx + 1
    IN /\ s \in 1..Len(tokens)
       /\ e \in 1..Len(tokens)
       /\ s <= e
       /\ runStart(s) <= input.start
       /\ input.start < runStart(s) + Len(tokens[s].text)
       /\ output.start.off = input.start - runStart(s)
       /\ runStart(e) < input.end
       /\ input.end <= runStart(e) + Len(tokens[e].text)
       /\ output.end.off = input.end - runStart(e)

\* C37 witness: in the runs a, b, c the offsets 1 and 2, both on a
\* boundary, have been located: the start in the run b at 0, the end in the
\* run b at 1.
C37_Witness ==
  /\ last.op = "locate"
  /\ Len(tokens) = 3
  /\ input = [start |-> 1, end |-> 2]
  /\ output = [start |-> [idx |-> 1, off |-> 0], end |-> [idx |-> 1, off |-> 1]]

\* C38: for all strings prev and next, d = diffStrings(prev, next) gives
\* next back as prev[0..d.start) + d.added + prev[d.start + |d.removed|..),
\* and d.removed is prev[d.start .. d.start + |d.removed|); equal strings
\* give removed = added = "", a pure append gives removed = "", and a pure
\* deletion gives added = "".
C38_DiffReconstructs ==
  (last.op = "diffStrings") =>
    LET prev == input.prev
        next == input.next
        d    == output
    IN /\ d.start \in 0..Len(prev)
       /\ d.start + Len(d.removed) <= Len(prev)
       /\ next = slice(prev, 0, d.start) \o d.added
                   \o sliceFrom(prev, d.start + Len(d.removed))
       /\ d.removed = slice(prev, d.start, d.start + Len(d.removed))
       /\ (prev = next) => (d.removed = <<>> /\ d.added = <<>>)
       /\ (Len(next) > Len(prev) /\ slice(next, 0, Len(prev)) = prev)
            => d.removed = <<>>
       /\ (\E i \in 0..Len(prev) : \E j \in i..Len(prev) :
             next = slice(prev, 0, i) \o sliceFrom(prev, j))
            => d.added = <<>>

\* C38 witness: the diff of "aab" and "abb" has been taken: one character
\* replaced in the middle.
C38_Witness ==
  /\ last.op = "diffStrings"
  /\ input = [prev |-> <<"a", "a", "b">>, next |-> <<"a", "b", "b">>]
  /\ output = [start |-> 1, removed |-> <<"a">>, added |-> <<"b">>]

RECURSIVE nested(_, _, _, _)
\* children in the delimiters of the truthy styles of the patterns i, i + 1,
\* ..., the delimiters of the earlier pattern outside those of the later.
nested(children, annotations, patterns, i) ==
  IF i > Len(patterns) THEN children
  ELSE IF Truthy(Get(annotations, patterns[i].style))
       THEN patterns[i].opening
              \o nested(children, annotations, patterns, i + 1)
              \o patterns[i].closing
       ELSE nested(children, annotations, patterns, i + 1)

RECURSIVE nestedRuns(_, _)
nestedRuns(toks, patterns) ==
  IF toks = <<>> THEN <<>>
  ELSE nested(Head(toks).text, Head(toks).annotations, patterns, 1)
       \o nestedRuns(Tail(toks), patterns)

\* C39: parseTokens wraps each run on its own and, for a run with several
\* truthy styles, puts the delimiters of the pattern earlier in the table
\* outermost: a run that is bold and italic reads *_text_*.
C39_EarlierOutermost ==
  (last.op = "getRichTextString") => output = nestedRuns(tokens, PATTERNS)

====
